---- MODULE Spec2Model ----
(***************************************************************************)
(* Model of the version and publish commands of @funish/basis:             *)
(*   packages/basis/src/modules/version.ts  (calculateNewVersion,          *)
(*                                           updatePackageVersion)         *)
(*   packages/basis/src/modules/publish.ts  (determinePublishTag,          *)
(*                                           publishPackage)               *)
(* together with the part of the semver library (7.7.2) these call.        *)
(*                                                                         *)
(* A JavaScript string is a sequence of tokens: "1.0.1-beta.0" is          *)
(* <<"1", ".", "0", ".", "1", "-", "beta", ".", "0">>.  Parsing, formatting *)
(* and concatenation work on these sequences.                              *)
(***************************************************************************)
EXTENDS Integers, Sequences, FiniteSets, TLC

\* Largest number a token of a version string may spell.
MaxNum == 9

\* Number of version / publish commands in one run.
MaxCalls == 3

(***************************************************************************)
(* JavaScript values: strings, numbers and undefined/null.                 *)
(***************************************************************************)
S(toks) == [type |-> "string", str |-> toks, num |-> 0]
N(n) == [type |-> "number", str |-> <<>>, num |-> n]
Undefined == [type |-> "undefined", str |-> <<>>, num |-> 0]

\* ToBoolean of a JavaScript value: "", 0 and undefined/null are falsy.
Truthy(v) ==
  CASE v.type = "string" -> v.str /= <<>>
    [] v.type = "number" -> v.num /= 0
    [] OTHER -> FALSE

\* a || b
Or(a, b) == IF Truthy(a) THEN a ELSE b

\* Template literal `${a}${b}` of two values.
ToStr(v) ==
  CASE v.type = "string" -> v.str
    [] v.type = "number" -> <<ToString(v.num)>>
    [] OTHER -> <<"undefined">>

Concat(a, b) == S(ToStr(a) \o ToStr(b))

(***************************************************************************)
(* The semver library: parse, valid, prerelease, inc.                      *)
(***************************************************************************)
Separators == {".", "-", "+"}

\* Text that is no identifier character run ([0-9A-Za-z-]+).
NonIdentifierText == {"not-a-version", "bad id"}

\* /^[0-9]+$/ within the numbers the model spells.
IsNumeric(t) == \E n \in 0..MaxNum : ToString(n) = t

ToNum(t) == CHOOSE n \in 0..MaxNum : ToString(n) = t

IsIdentifier(t) == t \notin Separators /\ t \notin NonIdentifierText

\* id(\.id)*
IsIdentifierList(x) ==
  /\ Len(x) % 2 = 1
  /\ \A i \in 1..Len(x) :
       IF i % 2 = 1 THEN IsIdentifier(x[i]) ELSE x[i] = "."

\* The identifiers of id(\.id)*, numeric ones as numbers (SemVer constructor).
RECURSIVE Identifiers(_)
Identifiers(x) ==
  IF x = <<>> THEN <<>>
  ELSE <<IF IsNumeric(x[1]) THEN N(ToNum(x[1])) ELSE S(<<x[1]>>)>>
         \o Identifiers(SubSeq(x, 3, Len(x)))

NoSemVer == [ok |-> FALSE, major |-> 0, minor |-> 0, patch |-> 0,
             prerelease |-> <<>>, build |-> <<>>]

\* The position of the first "+" of r, Len(r) + 1 when there is none.
PlusAt(r) ==
  IF \E i \in 1..Len(r) : r[i] = "+"
  THEN CHOOSE i \in 1..Len(r) : r[i] = "+" /\ \A j \in 1..(i - 1) : r[j] /= "+"
  ELSE Len(r) + 1

\* MAJOR.MINOR.PATCH
MainOk(b) ==
  /\ Len(b) >= 5
  /\ IsNumeric(b[1]) /\ b[2] = "." /\ IsNumeric(b[3])
  /\ b[4] = "." /\ IsNumeric(b[5])

\* (-PRERELEASE)?
PreOk(pre) == pre = <<>> \/ (pre[1] = "-" /\ IsIdentifierList(Tail(pre)))

ParseParts(b, pre, bld, hasBuild) ==
  IF MainOk(b) /\ PreOk(pre) /\ (~hasBuild \/ IsIdentifierList(bld))
  THEN [ok |-> TRUE, major |-> ToNum(b[1]), minor |-> ToNum(b[3]),
        patch |-> ToNum(b[5]),
        prerelease |-> IF pre = <<>> THEN <<>> ELSE Identifiers(Tail(pre)),
        build |-> bld]
  ELSE NoSemVer

ParseRest(b, r, plus) ==
  ParseParts(b, SubSeq(r, 1, plus - 1), SubSeq(r, plus + 1, Len(r)), plus <= Len(r))

ParseBody(b) == ParseRest(b, SubSeq(b, 6, Len(b)), PlusAt(SubSeq(b, 6, Len(b))))

\* new SemVer(version): ^v?MAJOR.MINOR.PATCH(-PRERELEASE)?(+BUILD)?$
semverParse(v) ==
  IF v.type /= "string" THEN NoSemVer
  ELSE ParseBody(IF Len(v.str) > 0 /\ v.str[1] = "v" THEN Tail(v.str) ELSE v.str)

\* prerelease.join(".")
RECURSIVE Join(_)
Join(ids) ==
  IF ids = <<>> THEN <<>>
  ELSE IF Len(ids) = 1 THEN ToStr(ids[1])
  ELSE ToStr(ids[1]) \o <<".">> \o Join(Tail(ids))

\* SemVer.format(): the version without "v" and without build metadata.
semverFormat(sv) ==
  <<ToString(sv.major), ".", ToString(sv.minor), ".", ToString(sv.patch)>>
    \o (IF sv.prerelease = <<>> THEN <<>> ELSE <<"-">> \o Join(sv.prerelease))

\* semver.valid(v): the cleaned version, or null.
semverValid(v) ==
  LET sv == semverParse(v) IN IF sv.ok THEN S(semverFormat(sv)) ELSE Undefined

\* semver.prerelease(v): the prerelease components, or null (here <<>>: the
\* library never returns an empty array).
semverPrerelease(v) ==
  LET sv == semverParse(v) IN IF sv.ok THEN sv.prerelease ELSE <<>>

\* compareIdentifiers(a, b) === 0
SameIdentifier(a, b) == ToStr(a) = ToStr(b)

\* The rightmost numeric component of a prerelease, 0 when there is none.
LastNumeric(pre) ==
  IF \E i \in 1..Len(pre) : pre[i].type = "number"
  THEN CHOOSE i \in 1..Len(pre) :
         pre[i].type = "number" /\ \A j \in (i + 1)..Len(pre) : pre[j].type /= "number"
  ELSE 0

\* SemVer.inc("pre", identifier)
IncPre(sv, identifier) ==
  LET p == sv.prerelease
      i == LastNumeric(p)
      bumped == IF p = <<>> THEN <<N(0)>>
                ELSE IF i > 0 THEN [p EXCEPT ![i] = N(p[i].num + 1)]
                ELSE Append(p, N(0))
      isNaN1 == Len(bumped) < 2 \/ bumped[2].type /= "number"
      fresh == <<identifier, N(0)>>
  IN [sv EXCEPT !.prerelease =
        IF ~Truthy(identifier) THEN bumped
        ELSE IF SameIdentifier(bumped[1], identifier)
             THEN (IF isNaN1 THEN fresh ELSE bumped)
             ELSE fresh]

\* Mutant: the patch number is never raised.
IncPatch_Same(sv) == [sv EXCEPT !.prerelease = <<>>]

IncPatch(sv) ==
  [sv EXCEPT !.patch = IF sv.prerelease = <<>> THEN @ + 1 ELSE @,
             !.prerelease = <<>>]

\* SemVer.inc(release, identifier) for the release types the command uses.
Inc(sv, release, identifier) ==
  CASE release = "major" ->
         [sv EXCEPT !.major = IF sv.minor /= 0 \/ sv.patch /= 0 \/ sv.prerelease = <<>>
                              THEN @ + 1 ELSE @,
                    !.minor = 0, !.patch = 0, !.prerelease = <<>>]
    [] release = "minor" ->
         [sv EXCEPT !.minor = IF sv.patch /= 0 \/ sv.prerelease = <<>>
                              THEN @ + 1 ELSE @,
                    !.patch = 0, !.prerelease = <<>>]
    [] release = "patch" -> IncPatch(sv)
    [] release = "prepatch" ->
         IncPre(IncPatch([sv EXCEPT !.prerelease = <<>>]), identifier)
    [] release = "prerelease" ->
         IncPre(IF sv.prerelease = <<>> THEN IncPatch(sv) ELSE sv, identifier)

\* release.startsWith("pre")
StartsWithPre(release) == release \in {"prepatch", "prerelease"}

\* semver.inc(version, release, identifier): null when the version does not
\* parse or the identifier is no valid prerelease identifier.
semverInc(version, release, identifier) ==
  LET sv == semverParse(version)
      badId == /\ StartsWithPre(release)
               /\ Truthy(identifier)
               /\ ~(identifier.type = "string" /\ IsIdentifierList(identifier.str))
  IN IF ~sv.ok \/ badId THEN Undefined
     ELSE S(semverFormat(Inc(sv, release, identifier)))

(***************************************************************************)
(* State.                                                                  *)
(***************************************************************************)
VARIABLES
  packageVersion,  \* the "version" field of package.json
  versionConfig,   \* config.version of basis.config.ts
  publishConfig,   \* config.publish of basis.config.ts
  published,       \* the versions of the package the registry holds
  distTags,        \* the registry's dist-tags: pairs of a tag and its version
  gitDir,          \* .git of the work tree: its config file and the backups
  basis,           \* the Basis instance: cwd, cached config, pending loads
  calls,           \* commands run so far
  call             \* the last command: its inputs, what it ran, its result

vars == <<packageVersion, versionConfig, publishConfig, published, distTags,
          gitDir, basis, calls, call>>

\* A work tree that is not a git repository: no .git/config and no
\* .git/config.backup.* file (their number and the content of the newest).
NoGitDir ==
  [exists |-> FALSE, config |-> [s \in {} |-> s],
   backups |-> 0, lastBackup |-> [s \in {} |-> s]]

\* No Basis instance has been constructed.
NoBasis == [cwd |-> "none"]

\* What the version command leaves alone.
registryVars == <<publishConfig, published, distTags>>

Str(t) == S(<<t>>)

(***************************************************************************)
(* modules/version.ts: calculateNewVersion.                                *)
(***************************************************************************)
currentPrerelease(oldVersion) == semverPrerelease(oldVersion)

\* Mutant: the configured identifier is preferred to the current channel.
preid_ConfigFirst(oldVersion, options, versionConfig_) ==
  Or(options.preid,
     Or(versionConfig_.prereleaseId,
        Or(IF currentPrerelease(oldVersion) /= <<>>
              /\ currentPrerelease(oldVersion)[1].type = "string"
           THEN currentPrerelease(oldVersion)[1] ELSE Undefined,
           Str("edge"))))

\* Mutant: the current channel is not consulted.
preid_NoCurrent(oldVersion, options, versionConfig_) ==
  Or(options.preid, Or(versionConfig_.prereleaseId, Str("edge")))

\* options.preid || (current prerelease tag, when a string) ||
\* versionConfig.prereleaseId || "edge"
preid(oldVersion, options, versionConfig_) ==
  LET cur == currentPrerelease(oldVersion)
  IN Or(options.preid,
        Or(IF cur /= <<>> /\ cur[1].type = "string" THEN cur[1] ELSE Undefined,
           Or(versionConfig_.prereleaseId, Str("edge"))))

\* Mutant: minor is tested before major.
releaseType_MinorFirst(oldVersion, options) ==
  IF options.minor THEN "minor"
  ELSE IF options.major THEN "major"
  ELSE IF options.prerelease
       THEN (IF currentPrerelease(oldVersion) /= <<>> THEN "prerelease" ELSE "prepatch")
       ELSE (IF currentPrerelease(oldVersion) /= <<>> THEN "prerelease" ELSE "patch")

\* Mutant: an un-flagged bump is always a patch.
releaseType_DefaultPatch(oldVersion, options) ==
  IF options.major THEN "major"
  ELSE IF options.minor THEN "minor"
  ELSE IF options.prerelease
       THEN (IF currentPrerelease(oldVersion) /= <<>> THEN "prerelease" ELSE "prepatch")
       ELSE "patch"

releaseType(oldVersion, options) ==
  IF options.major THEN "major"
  ELSE IF options.minor THEN "minor"
  ELSE IF options.prerelease
       THEN (IF currentPrerelease(oldVersion) /= <<>> THEN "prerelease" ELSE "prepatch")
       ELSE (IF currentPrerelease(oldVersion) /= <<>> THEN "prerelease" ELSE "patch")

NoInc == [called |-> FALSE, release |-> "", identifier |-> Undefined]

Returned(value, inc) == [threw |-> FALSE, error |-> "", value |-> value, inc |-> inc]

Threw(error, inc) == [threw |-> TRUE, error |-> error, value |-> Undefined, inc |-> inc]

\* Mutant: when semver.inc returns nothing the old version is kept as result.
increment_KeepsOld(oldVersion, options, versionConfig_) ==
  LET release == releaseType(oldVersion, options)
      identifier == IF release = "prerelease" \/ StartsWithPre(release)
                    THEN preid(oldVersion, options, versionConfig_)
                    ELSE Undefined
      result == semverInc(oldVersion, release, identifier)
      inc == [called |-> TRUE, release |-> release, identifier |-> identifier]
  IN IF ~Truthy(result)
     THEN Returned(oldVersion, inc)
     ELSE Returned(result, inc)

\* The call of semver.inc and the check of its result.
increment(oldVersion, options, versionConfig_) ==
  LET release == releaseType(oldVersion, options)
      identifier == IF release = "prerelease" \/ StartsWithPre(release)
                    THEN preid(oldVersion, options, versionConfig_)
                    ELSE Undefined
      result == semverInc(oldVersion, release, identifier)
      inc == [called |-> TRUE, release |-> release, identifier |-> identifier]
  IN IF ~Truthy(result)
     THEN Threw("Failed to calculate new version", inc)
     ELSE Returned(result, inc)

\* Mutant: the explicit version is returned as semver.valid cleans it.
calculateNewVersion_Cleaned(oldVersion, options, versionConfig_) ==
  IF Truthy(options.version)
  THEN (IF Truthy(semverValid(options.version))
        THEN Returned(semverValid(options.version), NoInc)
        ELSE Threw("Invalid version format", NoInc))
  ELSE IF ~Truthy(semverValid(oldVersion))
       THEN Threw("Invalid current version format", NoInc)
       ELSE increment(oldVersion, options, versionConfig_)

\* Mutant: the current version is not validated.
calculateNewVersion_NoOldCheck(oldVersion, options, versionConfig_) ==
  IF Truthy(options.version)
  THEN (IF Truthy(semverValid(options.version))
        THEN Returned(options.version, NoInc)
        ELSE Threw("Invalid version format", NoInc))
  ELSE increment(oldVersion, options, versionConfig_)

calculateNewVersion(oldVersion, options, versionConfig_) ==
  IF Truthy(options.version)
  THEN (IF Truthy(semverValid(options.version))
        THEN Returned(options.version, NoInc)
        ELSE Threw("Invalid version format", NoInc))
  ELSE IF ~Truthy(semverValid(oldVersion))
       THEN Threw("Invalid current version format", NoInc)
       ELSE increment(oldVersion, options, versionConfig_)

(***************************************************************************)
(* modules/version.ts: updatePackageVersion.                               *)
(***************************************************************************)
NotResolved == [called |-> FALSE, threw |-> FALSE, error |-> "",
                value |-> Undefined, inc |-> NoInc]

Resolved(r) == [called |-> TRUE, threw |-> r.threw, error |-> r.error,
                value |-> r.value, inc |-> r.inc]

\* `${versionConfig.tagPrefix || "v"}${newVersion}`
tagName(versionConfig_, newVersion) ==
  Concat(Or(versionConfig_.tagPrefix, Str("v")), newVersion)

CommitOutcomes == {"ok", "add fails", "commit fails"}
PushOutcomes == {"ok", "push fails", "push --tags fails"}

Cmd(cmd, arg, ok) == [cmd |-> cmd, arg |-> arg, ok |-> ok]

\* Mutant: the first failing git step ends the git operations.
gitCommands_StopAtFailure(cfg, newVersion, commit, tag, push) ==
  (IF cfg.autoCommit
   THEN <<Cmd("git add", Str("package.json"), commit /= "add fails")>>
        \o (IF commit /= "add fails"
            THEN <<Cmd("git commit", Undefined, commit = "ok")>> ELSE <<>>)
   ELSE <<>>)
  \o (IF cfg.autoTag /\ commit = "ok"
      THEN <<Cmd("git tag", tagName(cfg, newVersion), tag)>> ELSE <<>>)
  \o (IF cfg.autoPush /\ commit = "ok" /\ tag
      THEN <<Cmd("git push", Undefined, push /= "push fails")>>
           \o (IF cfg.autoTag /\ push /= "push fails"
               THEN <<Cmd("git push", Str("--tags"), push = "ok")>> ELSE <<>>)
      ELSE <<>>)

\* The git commands the command executes, in order, each with its success.
gitCommands(cfg, newVersion, commit, tag, push) ==
  (IF cfg.autoCommit
   THEN <<Cmd("git add", Str("package.json"), commit /= "add fails")>>
        \o (IF commit /= "add fails"
            THEN <<Cmd("git commit", Undefined, commit = "ok")>> ELSE <<>>)
   ELSE <<>>)
  \o (IF cfg.autoTag
      THEN <<Cmd("git tag", tagName(cfg, newVersion), tag)>> ELSE <<>>)
  \o (IF cfg.autoPush
      THEN <<Cmd("git push", Undefined, push /= "push fails")>>
           \o (IF cfg.autoTag /\ push /= "push fails"
               THEN <<Cmd("git push", Str("--tags"), push = "ok")>> ELSE <<>>)
      ELSE <<>>)

\* The outcomes the git commands of a configuration can have.
GitOutcomes(cfg) ==
  { o \in [commit : CommitOutcomes, tag : BOOLEAN, push : PushOutcomes] :
      /\ cfg.autoCommit \/ o.commit = "ok"
      /\ cfg.autoTag \/ o.tag
      /\ cfg.autoPush \/ o.push = "ok"
      /\ cfg.autoTag \/ o.push /= "push --tags fails" }

\* Every number of the version is below MaxNum, so that the next one is spelled.
InRange(v) ==
  semverParse(v).ok =>
    /\ semverParse(v).major < MaxNum
    /\ semverParse(v).minor < MaxNum
    /\ semverParse(v).patch < MaxNum
    /\ \A i \in 1..Len(semverPrerelease(v)) :
         semverPrerelease(v)[i].type = "number" => semverPrerelease(v)[i].num < MaxNum

\* updatePackageVersion(cwd, options)
updatePackageVersion(options) ==
  /\ call.op = "none"
  /\ calls < MaxCalls
  /\ InRange(packageVersion)
  /\ calls' = calls + 1
  /\ UNCHANGED <<versionConfig, registryVars>>
  /\ UNCHANGED <<gitDir, basis>>
  /\ LET oldVersion == packageVersion
         base == [op |-> "version", options |-> options, config |-> versionConfig,
                  oldVersion |-> oldVersion]
         r == calculateNewVersion(oldVersion, options, versionConfig)
     IN IF ~Truthy(oldVersion)
        THEN /\ UNCHANGED packageVersion
             /\ call' = base @@ [threw |-> TRUE,
                                 error |-> "No version found in package.json",
                                 resolved |-> NotResolved, newVersion |-> Undefined,
                                 tagName |-> Undefined, commands |-> <<>>]
        ELSE IF r.threw
        THEN /\ UNCHANGED packageVersion
             /\ call' = base @@ [threw |-> TRUE, error |-> r.error,
                                 resolved |-> Resolved(r), newVersion |-> Undefined,
                                 tagName |-> Undefined, commands |-> <<>>]
        ELSE /\ packageVersion' = r.value
             /\ \E o \in GitOutcomes(versionConfig) :
                  call' = base @@
                    [threw |-> FALSE, error |-> "",
                     resolved |-> Resolved(r), newVersion |-> r.value,
                     tagName |-> IF versionConfig.autoTag /\ o.tag
                                 THEN tagName(versionConfig, r.value)
                                 ELSE Undefined,
                     commands |-> gitCommands(versionConfig, r.value, o.commit, o.tag, o.push)]

(***************************************************************************)
(* Inputs.                                                                 *)
(***************************************************************************)
V(toks) == S(toks)

\* package.json versions a run starts from.
InitVersions ==
  { V(<<"1", ".", "0", ".", "0">>),
    V(<<"1", ".", "0", ".", "1", "-", "beta", ".", "2">>),
    V(<<"1", ".", "0", ".", "0", "-", "0">>),
    V(<<"1", ".", "2", ".", "0", "-", "beta">>),
    V(<<"1", ".", "0", ".", "0", "-", "beta", ".", "x", ".", "3">>),
    V(<<"v", "1", ".", "2", ".", "3", "+", "b1">>),
    V(<<"1", ".", "0">>),
    Undefined }

ExplicitVersions ==
  { Undefined, V(<<"v", "0", ".", "5", ".", "0">>), V(<<"not-a-version">>) }

Preids == { Undefined, Str("rc"), Str("bad id") }

\* VersionOptions of the programmatic API: every combination of the fields.
VersionOptions ==
  [version : ExplicitVersions, preid : Preids, prerelease : BOOLEAN,
   major : BOOLEAN, minor : BOOLEAN, patch : BOOLEAN]

NoGit == [autoCommit |-> FALSE, autoTag |-> FALSE, autoPush |-> FALSE]

\* config.version without git automation.
PlainVersionConfigs ==
  { [tagPrefix |-> Undefined, prereleaseId |-> Undefined] @@ NoGit,
    [tagPrefix |-> Str("v"), prereleaseId |-> Str("next")] @@ NoGit }

\* config.version with git automation.
GitVersionConfigs ==
  { [tagPrefix |-> S(<<>>), prereleaseId |-> Undefined,
     autoCommit |-> FALSE, autoTag |-> TRUE, autoPush |-> FALSE],
    [tagPrefix |-> Undefined, prereleaseId |-> Str("edge"),
     autoCommit |-> TRUE, autoTag |-> TRUE, autoPush |-> FALSE],
    [tagPrefix |-> Str("rel-"), prereleaseId |-> Str("edge"),
     autoCommit |-> TRUE, autoTag |-> TRUE, autoPush |-> TRUE] }

\* The positional argument and --preid of `basis version`.
VersionArgs ==
  { Undefined, Str("patch"), Str("minor"), Str("major"), Str("prerelease"),
    V(<<"v", "0", ".", "5", ".", "0">>), V(<<"not-a-version">>) }

NoCall == [op |-> "none"]

\* config.publish with nothing set.
EmptyPublishConfig ==
  [defaultTag |-> Undefined, stableTag |-> Undefined, checkGitClean |-> FALSE,
   checkTests |-> FALSE, buildCommand |-> Undefined, autoGitPush |-> FALSE,
   createGitTag |-> FALSE]

\* A registry that holds no version of the package.
EmptyRegistry == published = {} /\ distTags = {}

\* The command has returned and its process has ended.
Exit ==
  /\ call.op /= "none"
  /\ call' = NoCall
  /\ UNCHANGED <<packageVersion, versionConfig, registryVars, calls>>
  /\ UNCHANGED <<gitDir, basis>>

(***************************************************************************)
(* commands/version.ts: run.                                               *)
(***************************************************************************)
versionComponents == {Str("patch"), Str("minor"), Str("major"), Str("prerelease")}

\* The options run() builds; an argument that is neither a component nor a
\* valid version ends the process before any update.
cliOptions(versionArg, preidArg) ==
  [version |-> IF Truthy(versionArg) /\ versionArg \notin versionComponents
               THEN versionArg ELSE Undefined,
   preid |-> preidArg,
   prerelease |-> versionArg = Str("prerelease"),
   major |-> versionArg = Str("major"),
   minor |-> versionArg = Str("minor"),
   patch |-> versionArg = Str("patch")]

versionRun(versionArg, preidArg) ==
  IF /\ Truthy(versionArg)
     /\ versionArg \notin versionComponents
     /\ ~Truthy(semverValid(versionArg))
  THEN /\ call.op = "none"
       /\ calls < MaxCalls
       /\ calls' = calls + 1
       /\ UNCHANGED <<packageVersion, versionConfig, registryVars>>
       /\ UNCHANGED <<gitDir, basis>>
       /\ call' = [op |-> "version", options |-> cliOptions(versionArg, preidArg),
                   config |-> versionConfig, oldVersion |-> packageVersion,
                   threw |-> TRUE, error |-> "Invalid version argument",
                   resolved |-> NotResolved, newVersion |-> Undefined,
                   tagName |-> Undefined, commands |-> <<>>]
  ELSE updatePackageVersion(cliOptions(versionArg, preidArg))

Init ==
  /\ packageVersion \in InitVersions
  /\ versionConfig \in PlainVersionConfigs
  /\ publishConfig = EmptyPublishConfig
  /\ EmptyRegistry
  /\ calls = 0
  /\ gitDir = NoGitDir
  /\ basis = NoBasis
  /\ call = NoCall

UpdateVersion ==
  \E options \in VersionOptions : updatePackageVersion(options)

Next == UpdateVersion \/ Exit

\* The programmatic API: updatePackageVersion with every request.
Spec == Init /\ [][Next]_vars

InitCli ==
  /\ packageVersion \in InitVersions
  /\ versionConfig \in GitVersionConfigs
  /\ publishConfig = EmptyPublishConfig
  /\ EmptyRegistry
  /\ calls = 0
  /\ gitDir = NoGitDir
  /\ basis = NoBasis
  /\ call = NoCall

VersionCli ==
  \E versionArg \in VersionArgs, preidArg \in Preids : versionRun(versionArg, preidArg)

NextCli == VersionCli \/ Exit

\* The command line: `basis version [arg] [--preid id]` with git automation.
SpecCli == InitCli /\ [][NextCli]_vars

(***************************************************************************)
(* modules/publish.ts: determinePublishTag, the checks, publishPackage.    *)
(***************************************************************************)
\* Mutant: the stable flags are examined before the explicit tag.
determinePublishTag_StableFirst(version, options, config) ==
  IF options.stable \/ options.latest THEN Or(config.stableTag, Str("latest"))
  ELSE IF Truthy(options.tag) THEN options.tag
  ELSE IF semverPrerelease(version) /= <<>>
  THEN Or(Or(semverPrerelease(version)[1], config.defaultTag), Str("edge"))
  ELSE Or(config.stableTag, Str("latest"))

\* Mutant: a prerelease version is examined before the stable flags.
determinePublishTag_PrereleaseFirst(version, options, config) ==
  IF Truthy(options.tag) THEN options.tag
  ELSE IF semverPrerelease(version) /= <<>>
  THEN Or(Or(semverPrerelease(version)[1], config.defaultTag), Str("edge"))
  ELSE Or(config.stableTag, Str("latest"))

\* Mutant: the resolver remembers what the registry holds: a version that
\* was published before goes to the default tag.
determinePublishTag_Remembers(version, options, config) ==
  IF version \in published THEN Or(config.defaultTag, Str("edge"))
  ELSE IF Truthy(options.tag) THEN options.tag
  ELSE IF options.stable \/ options.latest THEN Or(config.stableTag, Str("latest"))
  ELSE IF semverPrerelease(version) /= <<>>
  THEN Or(Or(semverPrerelease(version)[1], config.defaultTag), Str("edge"))
  ELSE Or(config.stableTag, Str("latest"))

\* Mutant: without tag, stable and latest the default tag is returned.
determinePublishTag_DefaultUnflagged(version, options, config) ==
  IF Truthy(options.tag) THEN options.tag
  ELSE IF options.stable \/ options.latest THEN Or(config.stableTag, Str("latest"))
  ELSE Or(config.defaultTag, Str("edge"))

\* determinePublishTag(version, options, config)
determinePublishTag(version, options, config) ==
  IF Truthy(options.tag) THEN options.tag
  ELSE IF options.stable \/ options.latest THEN Or(config.stableTag, Str("latest"))
  ELSE IF semverPrerelease(version) /= <<>>
  THEN Or(Or(semverPrerelease(version)[1], config.defaultTag), Str("edge"))
  ELSE Or(config.stableTag, Str("latest"))

\* What `git status --porcelain` can do.
StatusOutcomes == {"clean", "dirty", "fails"}

\* The checks of runPrePublishChecks that run under a config and options.
statusRuns(config, options) == config.checkGitClean /\ ~options.skipTests
testsRun(config, options) == config.checkTests /\ ~options.skipTests
buildRuns(config, options) == Truthy(config.buildCommand) /\ ~options.skipBuild

\* runPrePublishChecks: the commands it executes, each with its success.
runPrePublishChecks(config, options, o) ==
  (IF statusRuns(config, options)
   THEN <<Cmd("git status", Undefined, o.status /= "fails")>> ELSE <<>>)
  \o (IF testsRun(config, options)
      THEN <<Cmd("test", Undefined, o.tests)>> ELSE <<>>)
  \o (IF buildRuns(config, options) /\ o.tests
      THEN <<Cmd("build", config.buildCommand, o.build)>> ELSE <<>>)

\* runPostPublishActions: the commands it executes, each with its success.
runPostPublishActions(config, o) ==
  IF config.autoGitPush
  THEN <<Cmd("git push", Undefined, o.push /= "push fails")>>
       \o (IF config.createGitTag /\ o.push /= "push fails"
           THEN <<Cmd("git push --tags", Undefined, o.push = "ok")>> ELSE <<>>)
  ELSE <<>>

\* const defaultTag = publishConfig.defaultTag || "edge"
defaultTag(config) == Or(config.defaultTag, Str("edge"))

\* Mutant: the dist-tag follow-up also runs after a dry run.
distTagRuns_DryRunToo(config, options, publishTag) ==
  publishTag /= defaultTag(config)

\* Mutant: the dist-tag follow-up runs after every real publish.
distTagRuns_Always(config, options, publishTag) == ~options.dryRun

\* The dist-tag follow-up runs: a real publish to another tag than defaultTag.
distTagRuns(config, options, publishTag) ==
  ~options.dryRun /\ publishTag /= defaultTag(config)

\* Mutant: the publish command is executed whatever the checks did.
publishRuns_Always(o) == TRUE

\* The pre-publish checks passed, so the publish command is executed.
publishRuns(o) == o.tests /\ o.build

\* The publish command was executed and succeeded.
publishSucceeded(o) == publishRuns(o) /\ o.publish

\* What the external commands of one publishPackage call can do.  A command
\* that does not run has one outcome; the registry refuses a version it holds.
PublishOutcomes(config, options, version, publishTag) ==
  { o \in [status : StatusOutcomes, tests : BOOLEAN, build : BOOLEAN,
           publish : BOOLEAN, distTag : BOOLEAN, push : PushOutcomes] :
      /\ statusRuns(config, options) \/ o.status = "clean"
      /\ testsRun(config, options) \/ o.tests
      /\ (buildRuns(config, options) /\ o.tests) \/ o.build
      /\ publishRuns(o) \/ o.publish
      /\ (publishRuns(o) /\ ~options.dryRun /\ version \in published) => ~o.publish
      /\ (publishSucceeded(o) /\ distTagRuns(config, options, publishTag)) \/ o.distTag
      /\ (publishSucceeded(o) /\ ~options.dryRun /\ config.autoGitPush) \/ o.push = "ok"
      /\ config.createGitTag \/ o.push /= "push --tags fails" }

\* Mutant: a failed dist-tag follow-up ends the call before the post-publish
\* actions.
publishCommands_StopAtDistTag(config, options, publishTag, o) ==
  runPrePublishChecks(config, options, o)
  \o (IF publishRuns(o)
      THEN <<Cmd(IF options.dryRun THEN "publish --dry-run" ELSE "publish",
                 publishTag, o.publish)>>
      ELSE <<>>)
  \o (IF publishSucceeded(o) /\ distTagRuns(config, options, publishTag)
      THEN <<Cmd("dist-tag add", defaultTag(config), o.distTag)>> ELSE <<>>)
  \o (IF publishSucceeded(o) /\ ~options.dryRun /\ o.distTag
      THEN runPostPublishActions(config, o) ELSE <<>>)

\* The commands one publishPackage call executes, in order.
publishCommands(config, options, publishTag, o) ==
  runPrePublishChecks(config, options, o)
  \o (IF publishRuns(o)
      THEN <<Cmd(IF options.dryRun THEN "publish --dry-run" ELSE "publish",
                 publishTag, o.publish)>>
      ELSE <<>>)
  \o (IF publishSucceeded(o) /\ distTagRuns(config, options, publishTag)
      THEN <<Cmd("dist-tag add", defaultTag(config), o.distTag)>> ELSE <<>>)
  \o (IF publishSucceeded(o) /\ ~options.dryRun
      THEN runPostPublishActions(config, o) ELSE <<>>)

\* consola.warn: the failures publishPackage survives.
publishWarnings(config, options, publishTag, o) ==
  (IF o.status /= "clean" THEN {"Could not check git status"} ELSE {})
  \cup (IF ~o.distTag THEN {"Failed to add tag"} ELSE {})
  \cup (IF o.push /= "ok" THEN {"Failed to push changes"} ELSE {})

\* The error publishPackage rethrows, "" when it returns.
publishError(o) ==
  IF ~o.tests THEN "Tests failed"
  ELSE IF ~o.build THEN "Build failed"
  ELSE IF ~o.publish THEN "Failed to publish package"
  ELSE ""

\* The registry: point a dist-tag at a version.
SetTag(tags, tag, version) ==
  { p \in tags : p[1] /= S(ToStr(tag)) } \cup { <<S(ToStr(tag)), version>> }

\* Mutant: only the publish tag is moved, the follow-up has no effect.
distTagsAfter_PrimaryOnly(config, options, version, publishTag, o) ==
  IF publishSucceeded(o) /\ ~options.dryRun
  THEN SetTag(distTags, publishTag, version)
  ELSE distTags

\* The dist-tags after the publish command and the dist-tag follow-up.
distTagsAfter(config, options, version, publishTag, o) ==
  IF publishSucceeded(o) /\ ~options.dryRun
  THEN IF distTagRuns(config, options, publishTag) /\ o.distTag
       THEN SetTag(SetTag(distTags, publishTag, version), defaultTag(config), version)
       ELSE SetTag(distTags, publishTag, version)
  ELSE distTags

\* publishPackage fails before any command runs.
publishRejected(options, error) ==
  /\ call' = [op |-> "publish", options |-> options, config |-> publishConfig,
              version |-> packageVersion, threw |-> TRUE, error |-> error,
              tagResolved |-> FALSE, publishTag |-> Undefined,
              commands |-> <<>>, warnings |-> {}, dryRun |-> options.dryRun]
  /\ UNCHANGED <<published, distTags>>

\* publishPackage from the pre-publish checks on, under outcome o.
publishChecked(options, publishTag, o) ==
  /\ call' = [op |-> "publish", options |-> options, config |-> publishConfig,
              version |-> packageVersion, threw |-> ~publishSucceeded(o),
              error |-> publishError(o), tagResolved |-> publishRuns(o),
              publishTag |-> IF publishRuns(o) THEN publishTag ELSE Undefined,
              commands |-> publishCommands(publishConfig, options, publishTag, o),
              warnings |-> publishWarnings(publishConfig, options, publishTag, o),
              dryRun |-> options.dryRun]
  /\ published' = IF publishSucceeded(o) /\ ~options.dryRun
                  THEN published \cup {packageVersion} ELSE published
  /\ distTags' = distTagsAfter(publishConfig, options, packageVersion, publishTag, o)

\* publishPackage(cwd, options)
publishPackage(options) ==
  /\ call.op = "none"
  /\ calls < MaxCalls
  /\ calls' = calls + 1
  /\ UNCHANGED <<packageVersion, versionConfig, publishConfig>>
  /\ UNCHANGED <<gitDir, basis>>
  /\ IF ~Truthy(packageVersion)
     THEN publishRejected(options, "Missing name or version in package.json")
     ELSE IF ~Truthy(semverValid(packageVersion))
     THEN publishRejected(options, "Invalid version format in package.json")
     ELSE \E o \in PublishOutcomes(publishConfig, options, packageVersion,
                     determinePublishTag(packageVersion, options, publishConfig)) :
            publishChecked(options,
                           determinePublishTag(packageVersion, options, publishConfig), o)

\* package.json versions a publish starts from.
PublishVersions ==
  { V(<<"1", ".", "0", ".", "0">>),
    V(<<"1", ".", "0", ".", "1", "-", "beta", ".", "2">>),
    V(<<"1", ".", "0", ".", "1", "-", "edge", ".", "0">>),
    V(<<"1", ".", "0", ".", "0", "-", "0">>),
    V(<<"1", ".", "0", ".", "0", "-", "1">>),
    V(<<"1", ".", "0">>),
    Undefined }

\* PublishOptions: --tag, --stable, --latest, --dry-run, --skip-build, --skip-tests.
PublishOptions ==
  [tag : {Undefined, Str("canary"), S(<<>>)}, stable : BOOLEAN, latest : BOOLEAN,
   dryRun : BOOLEAN, skipBuild : BOOLEAN, skipTests : BOOLEAN]

NoChecks ==
  [checkGitClean |-> FALSE, checkTests |-> FALSE, buildCommand |-> Undefined,
   autoGitPush |-> FALSE, createGitTag |-> FALSE]

\* config.publish after the defaults are merged in.
PublishConfigs ==
  { [defaultTag |-> Str("edge"), stableTag |-> Str("latest")] @@ NoChecks,
    [defaultTag |-> Str("edge"), stableTag |-> Str("latest"),
     checkGitClean |-> TRUE, checkTests |-> TRUE, buildCommand |-> Str("build"),
     autoGitPush |-> TRUE, createGitTag |-> TRUE],
    [defaultTag |-> Str("next"), stableTag |-> Str("stable"),
     checkGitClean |-> FALSE, checkTests |-> FALSE, buildCommand |-> Undefined,
     autoGitPush |-> TRUE, createGitTag |-> FALSE],
    [defaultTag |-> S(<<>>), stableTag |-> S(<<>>)] @@ NoChecks }

InitPublish ==
  /\ packageVersion \in PublishVersions
  /\ versionConfig = [tagPrefix |-> Str("v"), prereleaseId |-> Str("edge")] @@ NoGit
  /\ publishConfig \in PublishConfigs
  /\ EmptyRegistry
  /\ calls = 0
  /\ gitDir = NoGitDir
  /\ basis = NoBasis
  /\ call = NoCall

Publish ==
  \E options \in PublishOptions : publishPackage(options)

NextPublish == Publish \/ Exit

\* `basis publish` with every option, against a registry.
SpecPublish == InitPublish /\ [][NextPublish]_vars

\* package.json versions a series of releases starts from.
RegistryVersions ==
  { V(<<"1", ".", "0", ".", "0">>),
    V(<<"1", ".", "0", ".", "1", "-", "beta", ".", "2">>) }

\* The positional argument of `basis version` between two publishes.
BumpArgs == {Str("patch"), Str("minor"), Str("prerelease")}

InitRegistry ==
  /\ packageVersion \in RegistryVersions
  /\ versionConfig = [tagPrefix |-> Str("v"), prereleaseId |-> Str("edge")] @@ NoGit
  /\ publishConfig \in PublishConfigs
  /\ EmptyRegistry
  /\ calls = 0
  /\ gitDir = NoGitDir
  /\ basis = NoBasis
  /\ call = NoCall

Bump ==
  \E versionArg \in BumpArgs : versionRun(versionArg, Undefined)

\* The options of a publish within a series: --tag, --stable, --dry-run.
SeriesOptions ==
  [tag : {Undefined, Str("canary")}, stable : BOOLEAN, latest : {FALSE},
   dryRun : BOOLEAN, skipBuild : {FALSE}, skipTests : {FALSE}]

PublishNext ==
  \E options \in SeriesOptions : publishPackage(options)

NextRegistry == PublishNext \/ Bump \/ Exit

\* A series of `basis version` and `basis publish` commands against one
\* registry.
SpecRegistry == InitRegistry /\ [][NextRegistry]_vars

\* Requests without an explicit version: every flag combination, three
\* prerelease identifiers.
BumpOptions ==
  [version : {Undefined}, preid : {Undefined, Str("alpha"), Str("rc")},
   prerelease : BOOLEAN, major : BOOLEAN, minor : BOOLEAN, patch : {FALSE}]

InitBumps ==
  /\ packageVersion \in InitVersions
  /\ versionConfig \in PlainVersionConfigs
  /\ publishConfig = EmptyPublishConfig
  /\ EmptyRegistry
  /\ calls = 0
  /\ gitDir = NoGitDir
  /\ basis = NoBasis
  /\ call = NoCall

BumpVersion ==
  \E options \in BumpOptions : updatePackageVersion(options)

NextBumps == BumpVersion \/ Exit

\* A sequence of version updates that carry no explicit version.
SpecBumps == InitBumps /\ [][NextBumps]_vars

(***************************************************************************)
(* The resolvers called a second time with the inputs of the last command. *)
(***************************************************************************)
\* calculateNewVersion called again with the last version command's inputs.
resolveAgain ==
  /\ call.op = "version"
  /\ call.resolved.called
  /\ call' = [op |-> "resolved twice", resolver |-> "version",
              version |-> call.oldVersion, options |-> call.options,
              config |-> call.config, first |-> call.resolved,
              second |-> Resolved(calculateNewVersion(call.oldVersion, call.options,
                                                      call.config))]
  /\ UNCHANGED <<packageVersion, versionConfig, registryVars, calls>>
  /\ UNCHANGED <<gitDir, basis>>

\* determinePublishTag called again with the last publish command's inputs.
resolveTagAgain ==
  /\ call.op = "publish"
  /\ call.tagResolved
  /\ call' = [op |-> "resolved twice", resolver |-> "tag",
              version |-> call.version, options |-> call.options,
              config |-> call.config, first |-> call.publishTag,
              second |-> determinePublishTag(call.version, call.options, call.config)]
  /\ UNCHANGED <<packageVersion, versionConfig, registryVars, calls>>
  /\ UNCHANGED <<gitDir, basis>>

\* package.json versions: stable, prerelease, no semantic version.
TwiceVersions ==
  { V(<<"1", ".", "0", ".", "0">>),
    V(<<"1", ".", "0", ".", "1", "-", "beta", ".", "2">>),
    V(<<"1", ".", "0">>) }

\* config.publish without pre-publish checks.
UncheckedPublishConfigs ==
  { c \in PublishConfigs : ~c.checkGitClean /\ ~c.checkTests /\ ~Truthy(c.buildCommand) }

InitTwice ==
  /\ packageVersion \in TwiceVersions
  /\ versionConfig = [tagPrefix |-> Str("v"), prereleaseId |-> Str("edge")] @@ NoGit
  /\ publishConfig \in UncheckedPublishConfigs
  /\ EmptyRegistry
  /\ calls = 0
  /\ gitDir = NoGitDir
  /\ basis = NoBasis
  /\ call = NoCall

NextTwice == VersionCli \/ PublishNext \/ resolveAgain \/ resolveTagAgain \/ Exit

\* Version and publish commands in any order, each resolver called a second
\* time with the same inputs after the command has had its effects.
SpecTwice == InitTwice /\ [][NextTwice]_vars

(***************************************************************************)
(* core.ts: Basis.release, one action per awaited step.                    *)
(***************************************************************************)
\* Mutant: the version update starts whatever lintAll returned.
afterLint_IgnoresLint(lintSuccess) == "version"

\* Where release continues after lintAll: the version update, or the throw.
afterLint(lintSuccess) == IF lintSuccess THEN "version" ELSE "done"

\* release: await lintAll, throw when it returned false.
releaseLint(versionOptions, publishOptions) ==
  /\ call.op = "none"
  /\ calls < MaxCalls
  /\ InRange(packageVersion)
  /\ calls' = calls + 1
  /\ \E lintSuccess \in BOOLEAN :
       call' = [op |-> "release", pc |-> afterLint(lintSuccess),
                steps |-> <<"lintAll">>, lintSuccess |-> lintSuccess,
                versionOptions |-> versionOptions, publishOptions |-> publishOptions,
                oldVersion |-> packageVersion, publishedBefore |-> published,
                distTagsBefore |-> distTags,
                threw |-> ~lintSuccess,
                error |-> IF lintSuccess THEN "" ELSE "Lint checks failed",
                versionDone |-> FALSE, newVersion |-> Undefined,
                publishDone |-> FALSE, publishTag |-> Undefined, commands |-> <<>>]
  /\ UNCHANGED <<packageVersion, versionConfig, registryVars>>
  /\ UNCHANGED <<gitDir, basis>>

\* release: the version update threw, release rethrows.
releaseVersionFailed(error) ==
  /\ call' = [call EXCEPT !.pc = "done", !.steps = Append(@, "updateVersion"),
                          !.threw = TRUE, !.error = error]
  /\ UNCHANGED packageVersion

\* release: await updatePackageVersion(cwd, versionOptions).
releaseVersion ==
  /\ call.op = "release"
  /\ call.pc = "version"
  /\ UNCHANGED <<versionConfig, registryVars, calls>>
  /\ UNCHANGED <<gitDir, basis>>
  /\ IF ~Truthy(packageVersion)
     THEN releaseVersionFailed("No version found in package.json")
     ELSE IF calculateNewVersion(packageVersion, call.versionOptions, versionConfig).threw
     THEN releaseVersionFailed(
            calculateNewVersion(packageVersion, call.versionOptions, versionConfig).error)
     ELSE /\ packageVersion' =
               calculateNewVersion(packageVersion, call.versionOptions, versionConfig).value
          /\ \E o \in GitOutcomes(versionConfig) :
               call' = [call EXCEPT
                          !.pc = "publish", !.steps = Append(@, "updateVersion"),
                          !.versionDone = TRUE, !.newVersion = packageVersion',
                          !.commands = gitCommands(versionConfig, packageVersion',
                                                   o.commit, o.tag, o.push)]

\* release: publishPackage threw before any command ran, release rethrows.
releasePublishRejected(error) ==
  /\ call' = [call EXCEPT !.pc = "done", !.steps = Append(@, "publish"),
                          !.threw = TRUE, !.error = error]
  /\ UNCHANGED <<published, distTags>>

\* release: publishPackage from the pre-publish checks on, under outcome o.
releasePublishChecked(publishTag, o) ==
  /\ call' = [call EXCEPT
                !.pc = "done", !.steps = Append(@, "publish"),
                !.threw = ~publishSucceeded(o), !.error = publishError(o),
                !.publishDone = publishSucceeded(o),
                !.publishTag = IF publishRuns(o) THEN publishTag ELSE Undefined,
                !.commands = @ \o publishCommands(publishConfig, call.publishOptions,
                                                  publishTag, o)]
  /\ published' = IF publishSucceeded(o) /\ ~call.publishOptions.dryRun
                  THEN published \cup {packageVersion} ELSE published
  /\ distTags' = distTagsAfter(publishConfig, call.publishOptions, packageVersion,
                               publishTag, o)

\* release: await publishPackage(cwd, publishOptions).
releasePublish ==
  /\ call.op = "release"
  /\ call.pc = "publish"
  /\ UNCHANGED <<packageVersion, versionConfig, publishConfig, calls>>
  /\ UNCHANGED <<gitDir, basis>>
  /\ IF ~Truthy(semverValid(packageVersion))
     THEN releasePublishRejected("Invalid version format in package.json")
     ELSE \E o \in PublishOutcomes(publishConfig, call.publishOptions, packageVersion,
                     determinePublishTag(packageVersion, call.publishOptions,
                                         publishConfig)) :
            releasePublishChecked(
              determinePublishTag(packageVersion, call.publishOptions, publishConfig), o)

\* release returns or has thrown.
releaseReturn ==
  /\ call.op = "release"
  /\ call.pc = "done"
  /\ call' = NoCall
  /\ UNCHANGED <<packageVersion, versionConfig, registryVars, calls>>
  /\ UNCHANGED <<gitDir, basis>>

\* The version requests and publish options of a release.
ReleaseVersionOptions ==
  [version : {Undefined, V(<<"not-a-version">>)}, preid : {Undefined},
   prerelease : {FALSE}, major : {FALSE}, minor : BOOLEAN, patch : {FALSE}]

ReleasePublishOptions ==
  [tag : {Undefined}, stable : BOOLEAN, latest : {FALSE},
   dryRun : BOOLEAN, skipBuild : {FALSE}, skipTests : {FALSE}]

\* config.version without git automation, and with commit and tag.
ReleaseVersionConfigs ==
  { [tagPrefix |-> Str("v"), prereleaseId |-> Str("edge")] @@ NoGit,
    [tagPrefix |-> Str("v"), prereleaseId |-> Str("edge"),
     autoCommit |-> TRUE, autoTag |-> TRUE, autoPush |-> FALSE] }

InitRelease ==
  /\ packageVersion \in TwiceVersions
  /\ versionConfig \in ReleaseVersionConfigs
  /\ publishConfig \in { c \in UncheckedPublishConfigs : Truthy(c.defaultTag) }
  /\ EmptyRegistry
  /\ calls = 0
  /\ gitDir = NoGitDir
  /\ basis = NoBasis
  /\ call = NoCall

Release ==
  \E versionOptions \in ReleaseVersionOptions, publishOptions \in ReleasePublishOptions :
    releaseLint(versionOptions, publishOptions)

NextRelease == Release \/ releaseVersion \/ releasePublish \/ releaseReturn

\* Basis.release called repeatedly.
SpecRelease == InitRelease /\ [][NextRelease]_vars

(***************************************************************************)
(* The project the lint, git-setup and Basis commands run in.              *)
(***************************************************************************)
\* A project at version 1.0.0 with default configuration, not yet a git
\* repository and with no Basis instance.
InitProject ==
  /\ packageVersion = V(<<"1", ".", "0", ".", "0">>)
  /\ versionConfig = [tagPrefix |-> Undefined, prereleaseId |-> Undefined] @@ NoGit
  /\ publishConfig = EmptyPublishConfig
  /\ EmptyRegistry
  /\ gitDir = NoGitDir
  /\ basis = NoBasis
  /\ calls = 0
  /\ call = NoCall

(***************************************************************************)
(* modules/lint.ts: lintAll, one action per settled promise.               *)
(***************************************************************************)
\* The four checks lintAll hands to Promise.allSettled.
LintChecks == {"project", "dependencies", "structure", "docs"}

\* Mutant: the wait ends with the first rejection, as Promise.all would.
allSettled_FailFast(checks) ==
  \/ \A c \in LintChecks : checks[c] /= "pending"
  \/ \E c \in LintChecks : checks[c] = "rejected"

\* Promise.allSettled has resolved: no promise is pending.
allSettled(checks) == \A c \in LintChecks : checks[c] /= "pending"

\* lintAll: the four checks are started in one synchronous array literal.
lintAllStart ==
  /\ call.op = "none"
  /\ calls < MaxCalls
  /\ calls' = calls + 1
  /\ call' = [op |-> "lintAll", pc |-> "awaiting",
              checks |-> [c \in LintChecks |-> "pending"], result |-> "none"]
  /\ UNCHANGED <<packageVersion, versionConfig, registryVars>>
  /\ UNCHANGED <<gitDir, basis>>

\* The promise of check c settles: fulfilled with true or false, or rejected.
checkSettles(c, settlement) ==
  /\ call.op = "lintAll"
  /\ call.pc = "awaiting"
  /\ call.checks[c] = "pending"
  /\ call' = [call EXCEPT !.checks[c] = settlement]
  /\ UNCHANGED <<packageVersion, versionConfig, registryVars, calls>>
  /\ UNCHANGED <<gitDir, basis>>

\* lintAll: allSettled has resolved; the failures are the results that are
\* rejected or fulfilled with a falsy value.
lintAllReturn ==
  /\ call.op = "lintAll"
  /\ call.pc = "awaiting"
  /\ allSettled(call.checks)
  /\ call' = [call EXCEPT !.pc = "done",
                          !.result = IF \A c \in LintChecks : call.checks[c] = "true"
                                     THEN "true" ELSE "false"]
  /\ UNCHANGED <<packageVersion, versionConfig, registryVars, calls>>
  /\ UNCHANGED <<gitDir, basis>>

\* The caller has the result of lintAll.
lintAllDone ==
  /\ call.op = "lintAll"
  /\ call.pc = "done"
  /\ call' = NoCall
  /\ UNCHANGED <<packageVersion, versionConfig, registryVars, calls>>
  /\ UNCHANGED <<gitDir, basis>>

NextLint ==
  \/ lintAllStart
  \/ \E c \in LintChecks, settlement \in {"true", "false", "rejected"} :
       checkSettles(c, settlement)
  \/ lintAllReturn
  \/ lintAllDone

\* lintAll with its four checks settling in any order and in any way.
SpecLint == InitProject /\ [][NextLint]_vars

(***************************************************************************)
(* modules/lint.ts: lintStaged.                                            *)
(***************************************************************************)
\* Paths of the work tree: directory, and name and extension of the basename.
Files ==
  { [dir |-> "src", base |-> "a", ext |-> "ts"],
    [dir |-> "", base |-> "b", ext |-> "ts"],
    [dir |-> "docs", base |-> "c", ext |-> "md"] }

\* The glob patterns that key check.staged.
Patterns == {"*.ts", "*.md", "*"}

\* micromatch.isMatch(file.split("/").pop() || file, pattern)
isMatch(file, pattern) ==
  CASE pattern = "*.ts" -> file.ext = "ts"
    [] pattern = "*.md" -> file.ext = "md"
    [] OTHER -> TRUE

\* getStagedFiles: the staged paths that are not staged deletions.
getStagedFiles(staged, deleted) == { f \in staged : f \notin deleted }

\* files.filter(!processedFiles.has(file) && isMatch(basename, pattern))
matchedFiles(files, processedFiles, pattern) ==
  { f \in files : f \notin processedFiles /\ isMatch(f, pattern) }

\* processedFiles after one pattern: the matched files are added at the end of
\* the try block, after the command and the re-staging have succeeded.
processedAfter(processedFiles, matched, outcome) ==
  IF outcome = "ok" THEN processedFiles \cup matched ELSE processedFiles

\* The loop over Object.entries(stagedConfig); the log has one entry for each
\* command that was executed.
RECURSIVE stagedLoop(_, _, _, _, _)
stagedLoop(entries, files, outcome, processedFiles, log) ==
  IF entries = <<>> THEN log
  ELSE IF matchedFiles(files, processedFiles, Head(entries)) = {}
  THEN stagedLoop(Tail(entries), files, outcome, processedFiles, log)
  ELSE stagedLoop(Tail(entries), files, outcome,
                  processedAfter(processedFiles,
                                 matchedFiles(files, processedFiles, Head(entries)),
                                 outcome[Head(entries)]),
                  Append(log, [pattern |-> Head(entries),
                               files |-> matchedFiles(files, processedFiles, Head(entries)),
                               outcome |-> outcome[Head(entries)]]))

\* The commands lintStaged executes.
stagedCommands(stagedConfig, files, outcome) ==
  IF files = {} \/ stagedConfig = <<>> THEN <<>>
  ELSE stagedLoop(stagedConfig, files, outcome, {}, <<>>)

\* lintStaged(cwd, config) with the index holding `staged`, of which `deleted`
\* are deletions; outcome[p] is how the command of pattern p and the git add
\* after it end.
lintStaged(stagedConfig, staged, deleted, outcome) ==
  /\ call.op = "none"
  /\ calls < MaxCalls
  /\ calls' = calls + 1
  /\ call' = [op |-> "lintStaged", stagedConfig |-> stagedConfig,
              files |-> getStagedFiles(staged, deleted),
              commands |-> stagedCommands(stagedConfig,
                                          getStagedFiles(staged, deleted), outcome),
              hasErrors |->
                \E i \in DOMAIN stagedCommands(stagedConfig,
                                     getStagedFiles(staged, deleted), outcome) :
                  stagedCommands(stagedConfig, getStagedFiles(staged, deleted),
                                 outcome)[i].outcome /= "ok"]
  /\ UNCHANGED <<packageVersion, versionConfig, registryVars>>
  /\ UNCHANGED <<gitDir, basis>>

\* check.staged: patterns in the order of the configuration object, whose keys
\* are distinct.
StagedConfigs ==
  { s \in UNION { [1..n -> Patterns] : n \in 0..3 } :
      \A i, j \in DOMAIN s : i /= j => s[i] /= s[j] }

NextStaged ==
  \/ \E stagedConfig \in StagedConfigs, staged \in SUBSET Files,
        outcome \in [Patterns -> {"ok", "command failed", "git add failed"}] :
       \E deleted \in SUBSET staged :
         lintStaged(stagedConfig, staged, deleted, outcome)
  \/ Exit

\* Repeated runs of lintStaged over every staged set and configuration order.
SpecStaged == InitProject /\ [][NextStaged]_vars

(***************************************************************************)
(* modules/git.ts: setupGitConfig.                                         *)
(***************************************************************************)
\* A configuration value: a JavaScript string, boolean or number, with its
\* text.
GitValue(type, text) == [type |-> type, text |-> text]

\* ini.parse of one value: the texts true and false become booleans, every
\* other text stays a string.
iniDecode(text) ==
  IF text \in {"true", "false"} THEN GitValue("boolean", text)
  ELSE GitValue("string", text)

\* ini.parse(content)
iniParse(content) ==
  [s \in DOMAIN content |-> [k \in DOMAIN content[s] |-> iniDecode(content[s][k])]]

\* ini.stringify(config): each value is written as its text.
iniStringify(config) ==
  [s \in DOMAIN config |-> [k \in DOMAIN config[s] |-> config[s][k].text]]

\* readGitConfig: {} when the file is missing or cannot be read.
readGitConfig(dir, readOk) ==
  IF ~dir.exists \/ ~readOk THEN [s \in {} |-> s] ELSE iniParse(dir.config)

\* isConfigUpToDate: every section of ours exists and every key of ours has
\* a strictly equal value.
isConfigUpToDate(existingConfig, ourConfig) ==
  \A section \in DOMAIN ourConfig :
    /\ section \in DOMAIN existingConfig
    /\ \A key \in DOMAIN ourConfig[section] :
         /\ key \in DOMAIN existingConfig[section]
         /\ existingConfig[section][key] = ourConfig[section][key]

\* defu of two sections: the keys of the first win.
defuSection(existingSection, ourSection) ==
  [k \in DOMAIN existingSection \cup DOMAIN ourSection |->
     IF k \in DOMAIN existingSection THEN existingSection[k] ELSE ourSection[k]]

\* defu(existingConfig, gitConfigSettings): existing has priority.
defu(existingConfig, ourConfig) ==
  [s \in DOMAIN existingConfig \cup DOMAIN ourConfig |->
     IF s \notin DOMAIN ourConfig THEN existingConfig[s]
     ELSE IF s \notin DOMAIN existingConfig THEN ourConfig[s]
     ELSE defuSection(existingConfig[s], ourConfig[s])]

\* What can go wrong in one call.
GitSetupOutcomes == {"ok", "git unavailable", "read failed", "copy failed", "write failed"}

\* setupGitConfig reaches the backup and the write.
needsWrite(dir, settings, o) ==
  /\ o /= "git unavailable"
  /\ DOMAIN settings /= {}
  /\ ~isConfigUpToDate(readGitConfig(dir, o /= "read failed"), settings)

\* createGitConfigBackup copies .git/config under a new name, unless the
\* file is missing or the copy fails.
backupCreated(dir, o) == dir.exists /\ o /= "copy failed"

\* .git after createGitConfigBackup.
createGitConfigBackup(dir, o) ==
  IF backupCreated(dir, o)
  THEN [dir EXCEPT !.backups = @ + 1, !.lastBackup = dir.config] ELSE dir

\* .git after setupGitConfig(cwd, settings) under outcome o.
gitDirAfter(dir, settings, o) ==
  IF ~needsWrite(dir, settings, o) THEN dir
  ELSE IF o = "write failed"
  THEN createGitConfigBackup(dir, o)
  ELSE [createGitConfigBackup(dir, o) EXCEPT
          !.exists = TRUE,
          !.config = iniStringify(defu(readGitConfig(dir, o /= "read failed"),
                                       settings))]

\* What one call of setupGitConfig did.
setupReport(dir, settings, o) ==
  [outcome |-> o,
   upToDate |-> o /= "git unavailable" /\ DOMAIN settings /= {}
                /\ ~needsWrite(dir, settings, o),
   wrote |-> needsWrite(dir, settings, o) /\ o /= "write failed",
   backups |-> IF needsWrite(dir, settings, o) /\ backupCreated(dir, o)
               THEN 1 ELSE 0,
   success |-> ~(needsWrite(dir, settings, o) /\ o = "write failed")]

\* setupGitConfig(cwd, config)
setupGitConfig(settings, o) ==
  /\ call.op = "none"
  /\ calls < MaxCalls
  /\ calls' = calls + 1
  /\ gitDir' = gitDirAfter(gitDir, settings, o)
  /\ call' = [op |-> "setupGitConfig", settings |-> settings, before |-> gitDir,
              first |-> setupReport(gitDir, settings, o), again |-> FALSE,
              between |-> gitDir,
              second |-> setupReport(gitDir, settings, o)]
  /\ UNCHANGED <<packageVersion, versionConfig, registryVars, basis>>

\* setupGitConfig is called once more with the same settings, nothing else
\* having touched .git/config.
setupGitConfigAgain ==
  /\ call.op = "setupGitConfig"
  /\ ~call.again
  /\ gitDir' = gitDirAfter(gitDir, call.settings, "ok")
  /\ call' = [call EXCEPT !.again = TRUE, !.between = gitDir,
                          !.second = setupReport(gitDir, call.settings, "ok")]
  /\ UNCHANGED <<packageVersion, versionConfig, registryVars, basis, calls>>

\* git init and the user's own git config commands: .git/config appears.
gitInit(content) ==
  /\ call.op = "none"
  /\ ~gitDir.exists
  /\ gitDir' = [gitDir EXCEPT !.exists = TRUE, !.config = content]
  /\ UNCHANGED <<packageVersion, versionConfig, registryVars, basis, calls, call>>

\* A section holding some of the keys, each with one of its candidate values.
SectionsOver(candidates) ==
  UNION { { f \in [keys -> UNION { candidates[k] : k \in keys }] :
              \A k \in keys : f[k] \in candidates[k] } :
          keys \in (SUBSET DOMAIN candidates) \ {{}} }

\* Configurations holding some of the sections.
ConfigsOver(sections) ==
  UNION { { f \in [names -> UNION { sections[s] : s \in names }] :
              \A s \in names : f[s] \in sections[s] } :
          names \in SUBSET DOMAIN sections }

\* Contents of .git/config: texts.
GitConfigFiles ==
  ConfigsOver([core |-> SectionsOver([autocrlf |-> {"input", "true"}]),
               pull |-> SectionsOver([rebase |-> {"merges"}])])

\* config.git.config of basis.config.ts: typed values.
GitConfigSettings ==
  ConfigsOver([core |-> SectionsOver(
                 [autocrlf |-> {GitValue("string", "input"), GitValue("boolean", "true")}]),
               pull |-> SectionsOver([rebase |-> {GitValue("boolean", "true")}])])

NextGitConfig ==
  \/ \E content \in GitConfigFiles : gitInit(content)
  \/ \E settings \in GitConfigSettings, o \in GitSetupOutcomes :
       setupGitConfig(settings, o)
  \/ setupGitConfigAgain
  \/ Exit

\* Repeated setupGitConfig calls on a work tree with or without .git/config.
SpecGitConfig == InitProject /\ [][NextGitConfig]_vars

(***************************************************************************)
(* core.ts: the configuration cache of a Basis instance.                   *)
(***************************************************************************)
\* Working directories; the configuration loaded from a directory is named
\* by that directory.
Dirs == {"/a", "/b"}

\* The callers whose getConfig or reloadConfig can be awaiting loadConfig.
Callers == {1, 2}

\* A caller that is not inside getConfig.
Idle == [loading |-> FALSE, cwd |-> "none", later |-> FALSE, moved |-> FALSE]

\* A caller awaiting loadConfig({ cwd }); later: the call began after a
\* setCwd or reloadConfig; moved: setCwd ran while it was awaiting.
Loading(cwd, later) == [loading |-> TRUE, cwd |-> cwd, later |-> later, moved |-> FALSE]

\* new Basis(cwd): config = null.
construct(cwd) ==
  /\ basis = NoBasis
  /\ basis' = [cwd |-> cwd, config |-> "null", changed |-> FALSE,
               pending |-> [p \in Callers |-> Idle]]
  /\ UNCHANGED <<packageVersion, versionConfig, registryVars, gitDir, calls, call>>

\* setCwd(cwd): this.cwd = cwd; this.config = null.
setCwd(cwd) ==
  /\ basis /= NoBasis
  /\ calls < MaxCalls
  /\ calls' = calls + 1
  /\ basis' = [basis EXCEPT !.cwd = cwd, !.config = "null", !.changed = TRUE,
                            !.pending = [p \in Callers |->
                                           [basis.pending[p] EXCEPT !.moved = @ \/ basis.pending[p].loading]]]
  /\ UNCHANGED <<packageVersion, versionConfig, registryVars, gitDir, call>>

\* getConfig() with a cached configuration: return this.config.
getConfigCached ==
  /\ basis /= NoBasis
  /\ basis.config /= "null"
  /\ call.op = "none"
  /\ calls < MaxCalls
  /\ calls' = calls + 1
  /\ call' = [op |-> "getConfig", config |-> basis.config, cwd |-> basis.cwd,
              cached |-> TRUE, later |-> basis.changed, moved |-> FALSE]
  /\ UNCHANGED <<packageVersion, versionConfig, registryVars, gitDir, basis>>

\* getConfig() by caller p with this.config null: loadConfig({ cwd: this.cwd })
\* is started and awaited.
getConfigLoads(p) ==
  /\ basis /= NoBasis
  /\ basis.config = "null"
  /\ ~basis.pending[p].loading
  /\ calls < MaxCalls
  /\ calls' = calls + 1
  /\ basis' = [basis EXCEPT !.pending[p] = Loading(basis.cwd, basis.changed)]
  /\ UNCHANGED <<packageVersion, versionConfig, registryVars, gitDir, call>>

\* reloadConfig() by caller p: this.config = null, then getConfig().
reloadConfig(p) ==
  /\ basis /= NoBasis
  /\ ~basis.pending[p].loading
  /\ calls < MaxCalls
  /\ calls' = calls + 1
  /\ basis' = [basis EXCEPT !.config = "null", !.changed = TRUE,
                            !.pending[p] = Loading(basis.cwd, TRUE)]
  /\ UNCHANGED <<packageVersion, versionConfig, registryVars, gitDir, call>>

\* The loadConfig caller p awaits resolves: this.config = config, the
\* configuration of the directory the call captured when it started; return
\* this.config.
loadConfigResolves(p) ==
  /\ basis /= NoBasis
  /\ basis.pending[p].loading
  /\ call.op = "none"
  /\ basis' = [basis EXCEPT !.config = basis.pending[p].cwd,
                            !.pending[p] = Idle]
  /\ call' = [op |-> "getConfig", config |-> basis.pending[p].cwd,
              cwd |-> basis.cwd, cached |-> FALSE,
              later |-> basis.pending[p].later, moved |-> basis.pending[p].moved]
  /\ UNCHANGED <<packageVersion, versionConfig, registryVars, gitDir, calls>>

NextBasis ==
  \/ \E cwd \in Dirs : construct(cwd)
  \/ \E cwd \in Dirs : setCwd(cwd)
  \/ getConfigCached
  \/ \E p \in Callers : getConfigLoads(p)
  \/ \E p \in Callers : reloadConfig(p)
  \/ \E p \in Callers : loadConfigResolves(p)
  \/ Exit

\* One Basis instance used by two callers whose awaits interleave.
SpecBasis == InitProject /\ [][NextBasis]_vars

(***************************************************************************)
(* Properties of the version resolver.                                     *)
(***************************************************************************)
IsValid(v) == Truthy(semverValid(v))

IsPrerelease(v) == semverPrerelease(v) /= <<>>

\* calculateNewVersion was called by the last command.
ResolverCalled == call.op = "version" /\ call.resolved.called

InvalidVersionErrors == {"Invalid version format", "Invalid current version format"}

ValidExplicit(options) == Truthy(options.version) /\ IsValid(options.version)

EmptyRequest(options) ==
  /\ ~Truthy(options.version) /\ ~Truthy(options.preid)
  /\ ~options.major /\ ~options.minor /\ ~options.patch /\ ~options.prerelease

\* No major/minor/prerelease flag, no preid, no explicit version.
Unflagged(options) ==
  /\ ~Truthy(options.version) /\ ~Truthy(options.preid)
  /\ ~options.major /\ ~options.minor /\ ~options.prerelease

\* C1: whenever the request carries a valid explicit version, the resolver
\* returns exactly that string, whatever the current version (valid or not)
\* and the other flags are, without calling the increment primitive.
C1_ExplicitVersionVerbatim ==
  (ResolverCalled /\ ValidExplicit(call.options)) =>
    /\ ~call.resolved.threw
    /\ call.resolved.value = call.options.version
    /\ ~call.resolved.inc.called
    /\ packageVersion = call.options.version

\* C1 witness: an explicit "v0.5.0" with the major flag set is returned
\* verbatim although the current version "1.0" is invalid.
C1_Witness ==
  /\ ResolverCalled
  /\ call.options.version = V(<<"v", "0", ".", "5", ".", "0">>)
  /\ call.options.major
  /\ call.oldVersion = V(<<"1", ".", "0">>)
  /\ call.resolved.value = V(<<"v", "0", ".", "5", ".", "0">>)

\* C2 as stated: the resolver fails with an invalid-version error whenever
\* oldVersion is invalid, for every request, explicit version included.
C2_InvalidOldAlwaysFails ==
  (ResolverCalled /\ ~IsValid(call.oldVersion)) =>
    (call.resolved.threw /\ call.resolved.error \in InvalidVersionErrors)

\* C2 amended: the resolver fails with an invalid-version error whenever
\* oldVersion is invalid and the request carries no valid explicit version.
C2_InvalidOldFailsWithoutExplicit ==
  (ResolverCalled /\ ~IsValid(call.oldVersion) /\ ~ValidExplicit(call.options)) =>
    /\ call.resolved.threw
    /\ call.resolved.error \in InvalidVersionErrors
    /\ packageVersion = call.oldVersion

\* C2 witness: the invalid current version "1.0" and no explicit version.
C2_Witness ==
  /\ ResolverCalled
  /\ call.oldVersion = V(<<"1", ".", "0">>)
  /\ ~Truthy(call.options.version)
  /\ call.resolved.threw
  /\ call.resolved.error = "Invalid current version format"

\* C3: without an explicit version and with a valid oldVersion the increment
\* primitive is called, and its release type is major if bumpMajor, else
\* minor if bumpMinor, else (prerelease flag) prerelease/prepatch, else
\* prerelease/patch, by whether oldVersion is a prerelease.
C3_ReleaseTypePriority ==
  /\ (ResolverCalled /\ ~Truthy(call.options.version) /\ IsValid(call.oldVersion))
       => call.resolved.inc.called
  /\ (ResolverCalled /\ call.resolved.inc.called) =>
       LET o == call.options
           release == call.resolved.inc.release
       IN /\ o.major => release = "major"
          /\ (~o.major /\ o.minor) => release = "minor"
          /\ (~o.major /\ ~o.minor /\ o.prerelease) =>
               release = IF IsPrerelease(call.oldVersion)
                         THEN "prerelease" ELSE "prepatch"
          /\ (~o.major /\ ~o.minor /\ ~o.prerelease) =>
               release = IF IsPrerelease(call.oldVersion)
                         THEN "prerelease" ELSE "patch"

\* C3 witness: major, minor and prerelease all set on a prerelease version:
\* the release type is major.
C3_Witness ==
  /\ ResolverCalled
  /\ call.options.major /\ call.options.minor /\ call.options.prerelease
  /\ IsPrerelease(call.oldVersion)
  /\ call.resolved.inc.release = "major"

\* C4 as stated: for an empty request and empty defaults the result is
\* inc(v, patch) for a stable v and inc(v, prerelease, "edge") for a
\* prerelease v.
C4_DefaultBumpUsesEdge ==
  (ResolverCalled /\ EmptyRequest(call.options) /\ IsValid(call.oldVersion)
     /\ ~Truthy(call.config.prereleaseId)) =>
    call.resolved.value =
      IF IsPrerelease(call.oldVersion)
      THEN semverInc(call.oldVersion, "prerelease", Str("edge"))
      ELSE semverInc(call.oldVersion, "patch", Undefined)

\* The leading prerelease component of v when it is a non-numeric identifier,
\* "edge" otherwise.
ChannelOrEdge(v) ==
  IF semverPrerelease(v)[1].type = "string" THEN semverPrerelease(v)[1] ELSE Str("edge")

\* C4 amended: for an empty request and empty defaults the result is
\* inc(v, patch) for a stable v, and inc(v, prerelease, id) for a prerelease
\* v, where id is v's leading prerelease component when that is a
\* non-numeric identifier and "edge" otherwise.
C4_DefaultBumpContinuesChannel ==
  (ResolverCalled /\ EmptyRequest(call.options) /\ IsValid(call.oldVersion)
     /\ ~Truthy(call.config.prereleaseId)) =>
    /\ ~call.resolved.threw
    /\ call.resolved.value =
         IF IsPrerelease(call.oldVersion)
         THEN semverInc(call.oldVersion, "prerelease", ChannelOrEdge(call.oldVersion))
         ELSE semverInc(call.oldVersion, "patch", Undefined)

\* C4 witness: 1.0.1-beta.2 with an empty request and empty defaults becomes
\* 1.0.1-beta.3.
C4_Witness ==
  /\ ResolverCalled
  /\ EmptyRequest(call.options)
  /\ ~Truthy(call.config.prereleaseId)
  /\ call.oldVersion = V(<<"1", ".", "0", ".", "1", "-", "beta", ".", "2">>)
  /\ call.resolved.value = V(<<"1", ".", "0", ".", "1", "-", "beta", ".", "3">>)

\* The identifier the last command passed to the increment primitive.
PassedIdentifier == call.resolved.inc.identifier

\* The last command called the increment primitive with a pre* release type.
PreIncrement ==
  ResolverCalled /\ call.resolved.inc.called /\ StartsWithPre(call.resolved.inc.release)

\* C5 as stated: the effective prerelease identifier is request.prereleaseId
\* if given, else the leading prerelease component of oldVersion when
\* oldVersion is a prerelease, else defaults.prereleaseId, else "edge".
C5_PreidPrecedence ==
  PreIncrement =>
    PassedIdentifier =
      IF Truthy(call.options.preid) THEN call.options.preid
      ELSE IF IsPrerelease(call.oldVersion) THEN semverPrerelease(call.oldVersion)[1]
      ELSE IF Truthy(call.config.prereleaseId) THEN call.config.prereleaseId
      ELSE Str("edge")

\* C5 amended: the effective prerelease identifier is request.prereleaseId
\* if given, else the leading prerelease component of oldVersion when
\* oldVersion is a prerelease whose leading component is a non-numeric
\* identifier, else defaults.prereleaseId, else "edge"; and an explicit
\* prereleaseId on a version in another channel replaces the channel: the
\* new prerelease is <id>.0.
C5_PreidPrecedenceNonNumeric ==
  /\ PreIncrement =>
       PassedIdentifier =
         IF Truthy(call.options.preid) THEN call.options.preid
         ELSE IF IsPrerelease(call.oldVersion)
                 /\ semverPrerelease(call.oldVersion)[1].type = "string"
              THEN semverPrerelease(call.oldVersion)[1]
         ELSE IF Truthy(call.config.prereleaseId) THEN call.config.prereleaseId
         ELSE Str("edge")
  /\ (PreIncrement /\ ~call.resolved.threw /\ Truthy(call.options.preid)
        /\ IsPrerelease(call.oldVersion)
        /\ semverPrerelease(call.oldVersion)[1] /= call.options.preid) =>
       semverPrerelease(call.resolved.value) = <<call.options.preid, N(0)>>

\* C5 witness: 1.0.1-beta.2 with the prerelease flag and preid rc becomes
\* 1.0.1-rc.0.
C5_Witness ==
  /\ PreIncrement
  /\ call.options.preid = Str("rc")
  /\ call.oldVersion = V(<<"1", ".", "0", ".", "1", "-", "beta", ".", "2">>)
  /\ call.resolved.value = V(<<"1", ".", "0", ".", "1", "-", "rc", ".", "0">>)

\* new is a prerelease of old's major.minor.patch and leading identifier
\* whose prerelease is old's with its counter advanced by one.
ContinuesChannel(old, new) ==
  /\ IsPrerelease(new)
  /\ semverParse(new).major = semverParse(old).major
  /\ semverParse(new).minor = semverParse(old).minor
  /\ semverParse(new).patch = semverParse(old).patch
  /\ semverPrerelease(new)[1] = semverPrerelease(old)[1]
  /\ LastNumeric(semverPrerelease(old)) > 0
  /\ semverPrerelease(new) =
       [semverPrerelease(old) EXCEPT ![LastNumeric(semverPrerelease(old))] =
          N(@.num + 1)]

\* The prerelease of v is a non-numeric identifier followed by a counter.
HasChannelCounter(v) ==
  /\ Len(semverPrerelease(v)) >= 2
  /\ semverPrerelease(v)[1].type = "string"
  /\ semverPrerelease(v)[2].type = "number"

\* C6 as stated: from any prerelease version, every bump without
\* major/minor/prerelease flag, preid and explicit version yields a
\* prerelease of the same major.minor.patch and leading identifier with the
\* counter advanced by one, never a stable version.
C6_PrereleaseContinuity ==
  (ResolverCalled /\ Unflagged(call.options) /\ IsPrerelease(call.oldVersion)) =>
    /\ ~call.resolved.threw
    /\ ContinuesChannel(call.oldVersion, call.resolved.value)

\* C6 amended: the same, from any prerelease version whose prerelease is a
\* non-numeric identifier immediately followed by a numeric counter.
C6_ChannelContinuity ==
  (ResolverCalled /\ Unflagged(call.options) /\ IsPrerelease(call.oldVersion)
     /\ HasChannelCounter(call.oldVersion)) =>
    /\ ~call.resolved.threw
    /\ ContinuesChannel(call.oldVersion, call.resolved.value)
    /\ packageVersion = call.resolved.value

\* C6 witness: the second un-flagged bump in a row, 1.0.1-beta.3 to
\* 1.0.1-beta.4.
C6_Witness ==
  /\ ResolverCalled
  /\ calls = 2
  /\ Unflagged(call.options)
  /\ call.oldVersion = V(<<"1", ".", "0", ".", "1", "-", "beta", ".", "3">>)
  /\ packageVersion = V(<<"1", ".", "0", ".", "1", "-", "beta", ".", "4">>)

\* C7: a request with the patch option set (basis version patch, no --preid)
\* yields increment(oldVersion, "patch"), a stable version, for every valid
\* oldVersion.
C7_PatchOptionBumpsPatch ==
  (ResolverCalled /\ call.options.patch /\ ~Truthy(call.options.version)
     /\ ~Truthy(call.options.preid) /\ IsValid(call.oldVersion)) =>
    /\ ~call.resolved.threw
    /\ call.resolved.value = semverInc(call.oldVersion, "patch", Undefined)
    /\ ~IsPrerelease(call.resolved.value)

\* The last command ran `git tag` and it succeeded.
TagCreated ==
  /\ call.op = "version"
  /\ \E i \in 1..Len(call.commands) :
       call.commands[i].cmd = "git tag" /\ call.commands[i].ok

\* C8: when the version command creates a git tag, the tag name and
\* result.tagName are the configured version.tagPrefix followed by
\* newVersion, for every configured tagPrefix string.
C8_TagNameIsPrefixPlusVersion ==
  (TagCreated /\ call.config.tagPrefix.type = "string") =>
    /\ call.tagName = S(call.config.tagPrefix.str \o call.newVersion.str)
    /\ \A i \in 1..Len(call.commands) :
         call.commands[i].cmd = "git tag" =>
           call.commands[i].arg = S(call.config.tagPrefix.str \o call.newVersion.str)

(***************************************************************************)
(* Properties of the publish tag.                                          *)
(***************************************************************************)
\* The last command was a publish that got as far as choosing its tag.
PublishTagResolved == call.op = "publish" /\ call.tagResolved

\* The publish command of the last call ran with --tag tag.
PublishedWithTag(tag) ==
  \E i \in 1..Len(call.commands) :
    /\ call.commands[i].cmd \in {"publish", "publish --dry-run"}
    /\ call.commands[i].arg = tag

LeadingComponent(v) == semverPrerelease(v)[1]

StableTagOrLatest(config) ==
  IF Truthy(config.stableTag) THEN config.stableTag ELSE Str("latest")

DefaultTagOrEdge(config) ==
  IF Truthy(config.defaultTag) THEN config.defaultTag ELSE Str("edge")

StableRequested(options) == options.stable \/ options.latest

\* The priority order with the leading component taken whenever the version
\* is a prerelease.
LeadingComponentTag(version, options, config) ==
  IF Truthy(options.tag) THEN options.tag
  ELSE IF StableRequested(options) THEN StableTagOrLatest(config)
  ELSE IF IsPrerelease(version) THEN LeadingComponent(version)
  ELSE StableTagOrLatest(config)

\* The priority order with the fallback taken for a leading component 0.
ReferenceTag(version, options, config) ==
  IF Truthy(options.tag) THEN options.tag
  ELSE IF StableRequested(options) THEN StableTagOrLatest(config)
  ELSE IF IsPrerelease(version)
  THEN IF LeadingComponent(version) = N(0)
       THEN DefaultTagOrEdge(config) ELSE LeadingComponent(version)
  ELSE StableTagOrLatest(config)

C10_ExplicitTagWins ==
  (PublishTagResolved /\ Truthy(call.options.tag)) =>
    /\ call.publishTag = call.options.tag
    /\ PublishedWithTag(call.options.tag)

\* C10 happens: --tag canary --stable on a prerelease version publishes to
\* canary, and the registry's canary tag points at the version.
C10_Witness ==
  /\ PublishTagResolved
  /\ call.options.tag = Str("canary")
  /\ call.options.stable
  /\ IsPrerelease(call.version)
  /\ ~call.threw
  /\ call.publishTag = Str("canary")
  /\ <<Str("canary"), call.version>> \in distTags

\* The last publish carried none of tag, stable and latest.
StandardPublish ==
  PublishTagResolved /\ ~Truthy(call.options.tag) /\ ~StableRequested(call.options)

\* The last publish reached the registry: not a dry run, and it returned.
RealPublish == call.op = "publish" /\ ~call.threw /\ ~call.dryRun

\* The registry's dist-tag named by tag points at version.
TagPointsAt(tag, version) == <<S(ToStr(tag)), version>> \in distTags

\* The last call ran the command cmd, and it succeeded / failed.
Ran(cmd) == \E i \in 1..Len(call.commands) : call.commands[i].cmd = cmd
RanOk(cmd) ==
  \E i \in 1..Len(call.commands) : call.commands[i].cmd = cmd /\ call.commands[i].ok
RanFailed(cmd) ==
  \E i \in 1..Len(call.commands) : call.commands[i].cmd = cmd /\ ~call.commands[i].ok

C12_TagIsNonEmptyString ==
  PublishTagResolved =>
    /\ call.publishTag.type = "string"
    /\ call.publishTag.str /= <<>>

\* Position of the first command cmd in the last call's log, 0 if it did not run.
FirstAt(cmd) ==
  IF Ran(cmd)
  THEN CHOOSE i \in 1..Len(call.commands) :
         /\ call.commands[i].cmd = cmd
         /\ \A j \in 1..(i - 1) : call.commands[j].cmd /= cmd
  ELSE 0

\* Every command cmd of the last call comes after a successful command before.
OnlyAfterSuccessful(cmd, before) ==
  \A i \in 1..Len(call.commands) :
    call.commands[i].cmd = cmd =>
      \E j \in 1..(i - 1) : call.commands[j].cmd = before /\ call.commands[j].ok

\* C13: after a successful non-dry-run publish the dist-tag assignment of the
\* version to defaultTag (fallback 'edge') is attempted if and only if
\* publishTag differs from defaultTag, and a dist-tag assignment is attempted
\* only after the publish command has succeeded.
C13_DistTagFollowUp ==
  call.op = "publish" =>
    /\ RanOk("publish") =>
         /\ Ran("dist-tag add") <=> call.publishTag /= DefaultTagOrEdge(call.config)
         /\ \A i \in 1..Len(call.commands) :
              call.commands[i].cmd = "dist-tag add" =>
                call.commands[i].arg = DefaultTagOrEdge(call.config)
         /\ RanOk("dist-tag add") =>
              TagPointsAt(DefaultTagOrEdge(call.config), call.version)
    /\ OnlyAfterSuccessful("dist-tag add", "publish")

\* C13 happens: 1.0.1-beta.2 is published to beta and then put under edge.
C13_Witness ==
  /\ RealPublish
  /\ call.version = V(<<"1", ".", "0", ".", "1", "-", "beta", ".", "2">>)
  /\ call.publishTag = Str("beta")
  /\ FirstAt("publish") > 0
  /\ FirstAt("dist-tag add") = FirstAt("publish") + 1
  /\ RanOk("dist-tag add")
  /\ TagPointsAt(Str("edge"), call.version)

\* C14: a failed dist-tag follow-up is not fatal: publishPackage returns its
\* result with version and publishTag, only warns, and still runs the
\* post-publish actions.
C14_DistTagFailureNonFatal ==
  (call.op = "publish" /\ RanFailed("dist-tag add")) =>
    /\ ~call.threw
    /\ call.error = ""
    /\ call.version = packageVersion
    /\ call.tagResolved
    /\ call.publishTag = ReferenceTag(call.version, call.options, call.config)
    /\ ~call.dryRun
    /\ "Failed to add tag" \in call.warnings
    /\ call.config.autoGitPush =>
         /\ Ran("git push")
         /\ FirstAt("git push") > FirstAt("dist-tag add")

\* C14 happens: the dist-tag follow-up fails, the publish still returns and
\* the push still runs.
C14_Witness ==
  /\ call.op = "publish"
  /\ RanFailed("dist-tag add")
  /\ ~call.threw
  /\ call.publishTag = Str("latest")
  /\ RanOk("git push")
  /\ TagPointsAt(Str("latest"), call.version)
  /\ ~TagPointsAt(Str("edge"), call.version)

\* The follow-up dist-tag assignment of the last call failed.
DistTagFailed == RanFailed("dist-tag add")

\* What the registry's default tag points at.
DefaultTagEntries ==
  { p \in distTags : p[1] = S(ToStr(DefaultTagOrEdge(publishConfig))) }

InvalidExplicit ==
  Truthy(call.options.version) /\ ~IsValid(call.options.version)

\* The last version command started from a package.json version that is no
\* semantic version, without an explicit version.
InvalidCurrent ==
  /\ ~Truthy(call.options.version)
  /\ Truthy(call.oldVersion)
  /\ ~IsValid(call.oldVersion)

\* The increment the last version command asked for yields nothing.
IncrementFailed ==
  /\ call.resolved.inc.called
  /\ ~Truthy(semverInc(call.oldVersion, call.resolved.inc.release,
                       call.resolved.inc.identifier))

\* Version resolution of the last command failed.
ResolutionFailed ==
  call.op = "version" /\ (InvalidExplicit \/ InvalidCurrent \/ IncrementFailed)

\* C16: whenever version resolution fails (invalid explicit version, invalid
\* current version, increment returning nothing) the version command fails,
\* package.json keeps its version, no new version or tag name is returned and
\* no git command is run.
C16_NoPartialResultOnError ==
  ResolutionFailed =>
    /\ call.threw
    /\ call.error /= ""
    /\ packageVersion = call.oldVersion
    /\ call.newVersion = Undefined
    /\ call.tagName = Undefined
    /\ call.commands = <<>>

\* C16 happens: with all git automation on, --preid "bad id" makes the
\* increment return nothing, and the command fails without touching anything.
C16_Witness ==
  /\ ResolutionFailed
  /\ IncrementFailed
  /\ call.config.autoCommit /\ call.config.autoTag /\ call.config.autoPush
  /\ call.error = "Failed to calculate new version"
  /\ packageVersion = call.oldVersion
  /\ call.commands = <<>>

\* The last command ran cmd with argument arg.
RanWith(cmd, arg) ==
  \E i \in 1..Len(call.commands) :
    call.commands[i].cmd = cmd /\ call.commands[i].arg = arg

\* A git command of the last version command failed.
GitStepFailed == call.op = "version" /\ \E i \in 1..Len(call.commands) : ~call.commands[i].ok

\* C22: in updatePackageVersion a failing git step (commit, tag or push) is
\* not fatal: package.json holds the new version, every configured git step
\* is still attempted, and the call returns oldVersion and newVersion.
C22_GitFailureNonFatal ==
  /\ GitStepFailed =>
       /\ ~call.threw
       /\ call.newVersion = call.resolved.value
       /\ Truthy(call.newVersion)
       /\ packageVersion = call.newVersion
       /\ call.config.autoCommit => Ran("git add")
       /\ call.config.autoTag => Ran("git tag")
       /\ call.config.autoPush => RanWith("git push", Undefined)
  /\ (call.op = "version" /\ call.commands /= <<>>) => packageVersion = call.newVersion

\* C22 happens: the commit fails, the tag and the push are still run, and
\* package.json holds the new version.
C22_Witness ==
  /\ GitStepFailed
  /\ RanFailed("git commit")
  /\ RanOk("git tag")
  /\ RanWith("git push", Undefined)
  /\ ~call.threw
  /\ call.oldVersion = V(<<"1", ".", "0", ".", "0">>)
  /\ packageVersion = V(<<"1", ".", "0", ".", "1">>)

\* C28: when version.autoCommit and version.autoTag are both enabled, a git
\* tag for newVersion is created only if the version commit was made
\* successfully.
C28_TagOnlyAfterCommit ==
  (TagCreated /\ call.config.autoCommit /\ call.config.autoTag) => RanOk("git commit")

(***************************************************************************)
(* Semantic-version precedence.                                            *)
(***************************************************************************)
\* The alphanumeric identifiers of the model's versions, in ASCII order.
IdentifierOrder == <<"alpha", "beta", "edge", "next", "rc", "x">>

RankOf(t) == CHOOSE i \in 1..Len(IdentifierOrder) : IdentifierOrder[i] = t

Sign(n) == IF n < 0 THEN -1 ELSE IF n > 0 THEN 1 ELSE 0

\* Precedence of two prerelease identifiers: numeric below alphanumeric,
\* numbers by value, text in ASCII order.
CompareIdentifiers(a, b) ==
  IF a.type = "number" /\ b.type = "number" THEN Sign(a.num - b.num)
  ELSE IF a.type = "number" THEN -1
  ELSE IF b.type = "number" THEN 1
  ELSE Sign(RankOf(a.str[1]) - RankOf(b.str[1]))

RECURSIVE ComparePreFrom(_, _, _)
ComparePreFrom(p, q, i) ==
  IF i > Len(p) /\ i > Len(q) THEN 0
  ELSE IF i > Len(q) THEN 1
  ELSE IF i > Len(p) THEN -1
  ELSE IF CompareIdentifiers(p[i], q[i]) /= 0 THEN CompareIdentifiers(p[i], q[i])
  ELSE ComparePreFrom(p, q, i + 1)

\* Precedence of two prerelease segments: none is above any.
ComparePre(p, q) ==
  IF p = <<>> /\ q = <<>> THEN 0
  ELSE IF p = <<>> THEN 1
  ELSE IF q = <<>> THEN -1
  ELSE ComparePreFrom(p, q, 1)

CompareParsed(a, b) ==
  IF a.major /= b.major THEN Sign(a.major - b.major)
  ELSE IF a.minor /= b.minor THEN Sign(a.minor - b.minor)
  ELSE IF a.patch /= b.patch THEN Sign(a.patch - b.patch)
  ELSE ComparePre(a.prerelease, b.prerelease)

\* a is strictly above b in semantic-version precedence.
Greater(a, b) == CompareParsed(semverParse(a), semverParse(b)) = 1

\* The last version update resolved a new version without an explicit one.
Bumped ==
  /\ ResolverCalled
  /\ ~call.resolved.threw
  /\ ~Truthy(call.options.version)

\* The last version update restarted the prerelease segment of a prerelease
\* version at <identifier>.0: the identifier is not the leading one, or the
\* component after the leading one is not a number.
Restarted ==
  /\ call.resolved.inc.release = "prerelease"
  /\ IsPrerelease(call.oldVersion)
  /\ Truthy(call.resolved.inc.identifier)
  /\ \/ ~SameIdentifier(LeadingComponent(call.oldVersion), call.resolved.inc.identifier)
     \/ Len(semverPrerelease(call.oldVersion)) >= 2
          /\ semverPrerelease(call.oldVersion)[2].type /= "number"

\* C27 as stated: every version update without an explicit version yields a
\* version strictly above the old one, for every combination of flags and
\* preid.
C27_VersionIncreases ==
  Bumped => Greater(call.resolved.value, call.oldVersion)

\* C27: every version update without an explicit version yields a version
\* strictly above the old one, unless it is a prerelease increment that
\* restarts the prerelease segment of a prerelease version at <preid>.0;
\* the restarted version is above the old one exactly when <preid>.0 is
\* above the old prerelease segment.
C27_VersionIncreasesUnlessRestarted ==
  Bumped =>
    /\ ~Restarted => Greater(call.resolved.value, call.oldVersion)
    /\ Restarted =>
         /\ semverPrerelease(call.resolved.value) = <<call.resolved.inc.identifier, N(0)>>
         /\ Greater(call.resolved.value, call.oldVersion) <=>
              ComparePre(<<call.resolved.inc.identifier, N(0)>>,
                         semverPrerelease(call.oldVersion)) = 1
    /\ packageVersion = call.resolved.value

\* C27 happens: the third update in a row, a minor bump, moves 1.0.2 to 1.1.0.
C27_Witness ==
  /\ Bumped
  /\ calls = 3
  /\ call.options.minor
  /\ call.oldVersion = V(<<"1", ".", "0", ".", "2">>)
  /\ packageVersion = V(<<"1", ".", "1", ".", "0">>)
  /\ Greater(packageVersion, call.oldVersion)

(***************************************************************************)
(* Properties of the publish flow.                                         *)
(***************************************************************************)
\* C17: when publish.createGitTag is enabled, a successful non-dry-run
\* publish creates a git tag after the publish command.
C17_PublishCreatesGitTag ==
  (RealPublish /\ call.config.createGitTag) =>
    /\ Ran("git tag")
    /\ FirstAt("git tag") > FirstAt("publish")

\* The last publish had the test step / the build step enabled.
TestsEnabled == call.config.checkTests /\ ~call.options.skipTests
BuildEnabled == Truthy(call.config.buildCommand) /\ ~call.options.skipBuild

\* The last call ran the registry publish command, dry or not.
RanPublish == Ran("publish") \/ Ran("publish --dry-run")

\* The position of the registry publish command in the last call's log.
PublishAt == FirstAt("publish") + FirstAt("publish --dry-run")

\* C19: the registry publish command runs only after every enabled
\* pre-publish step has succeeded, tests before build; a failing test or
\* build step makes publishPackage throw without running the publish
\* command, the dist-tag call or the post-publish push.
C19_PrePublishGating ==
  call.op = "publish" =>
    /\ RanPublish =>
         /\ TestsEnabled => (RanOk("test") /\ FirstAt("test") < PublishAt)
         /\ BuildEnabled => (RanOk("build") /\ FirstAt("build") < PublishAt)
         /\ (TestsEnabled /\ BuildEnabled) => FirstAt("test") < FirstAt("build")
    /\ (RanFailed("test") \/ RanFailed("build")) =>
         /\ call.threw
         /\ call.error \in {"Tests failed", "Build failed"}
         /\ ~RanPublish
         /\ ~Ran("dist-tag add")
         /\ ~Ran("git push")
         /\ ~Ran("git push --tags")
    /\ RanFailed("test") => ~Ran("build")

\* C19 happens: the tests pass, the build fails, and nothing is published.
C19_Witness ==
  /\ call.op = "publish"
  /\ RanOk("test")
  /\ RanFailed("build")
  /\ call.threw
  /\ call.error = "Build failed"
  /\ ~RanPublish
  /\ call.version \notin published

\* The last publish ran `git status` and found uncommitted changes.
GitDirty ==
  /\ call.op = "publish"
  /\ RanOk("git status")
  /\ "Could not check git status" \in call.warnings

\* C20: when publish.checkGitClean is enabled, the check is not skipped and
\* the working directory has uncommitted changes, publishPackage fails with
\* 'Working directory is not clean' and the registry publish command is not
\* run.
C20_DirtyTreeBlocksPublish ==
  (GitDirty /\ call.config.checkGitClean /\ ~call.options.skipTests) =>
    /\ call.threw
    /\ call.error = "Working directory is not clean"
    /\ ~RanPublish

\* The commands of the pre-publish checks.
CheckCommands == {"git status", "test", "build"}

\* C21: a dry-run publish performs no dist-tag assignment and no git push;
\* the only command after the pre-publish checks is the publish command with
\* --dry-run, and the returned result has dryRun = true.
C21_DryRunOnlyPublishes ==
  (call.op = "publish" /\ call.options.dryRun) =>
    /\ ~Ran("publish")
    /\ ~Ran("dist-tag add")
    /\ ~Ran("git push")
    /\ ~Ran("git push --tags")
    /\ \A i \in 1..Len(call.commands) :
         \/ call.commands[i].cmd \in CheckCommands
         \/ call.commands[i].cmd = "publish --dry-run" /\ i = Len(call.commands)
    /\ ~call.threw => (call.dryRun /\ RanOk("publish --dry-run"))

\* C21 happens: a dry run under the config with push and tags enabled passes
\* its checks, runs the publish command and leaves the registry empty.
C21_Witness ==
  /\ call.op = "publish"
  /\ call.options.dryRun
  /\ ~call.threw
  /\ call.dryRun
  /\ call.config.autoGitPush /\ call.config.createGitTag
  /\ call.publishTag = Str("latest")
  /\ RanOk("build")
  /\ RanOk("publish --dry-run")
  /\ published = {}
  /\ distTags = {}

(***************************************************************************)
(* Properties of the release workflow.                                     *)
(***************************************************************************)
ReleaseOrder == <<"lintAll", "updateVersion", "publish">>

\* The steps release has started are the first ones of the order, in order.
StepsInOrder ==
  /\ Len(call.steps) <= Len(ReleaseOrder)
  /\ call.steps = SubSeq(ReleaseOrder, 1, Len(call.steps))

Started(step) == \E i \in 1..Len(call.steps) : call.steps[i] = step

\* C23: Basis.release runs lintAll, then the version update, then the
\* publish; when lintAll returns false it throws without changing
\* package.json or publishing; the publish step is not started unless the
\* version update completed.
C23_ReleaseGatingAndOrder ==
  call.op = "release" =>
    /\ StepsInOrder
    /\ ~call.lintSuccess =>
         /\ call.threw
         /\ call.error = "Lint checks failed"
         /\ call.steps = <<"lintAll">>
         /\ call.commands = <<>>
         /\ packageVersion = call.oldVersion
         /\ published = call.publishedBefore
         /\ distTags = call.distTagsBefore
    /\ Started("publish") =>
         /\ call.lintSuccess
         /\ call.versionDone
         /\ packageVersion = call.newVersion
    /\ (Started("updateVersion") /\ ~call.versionDone) =>
         /\ call.threw
         /\ ~Started("publish")
         /\ packageVersion = call.oldVersion
         /\ published = call.publishedBefore
         /\ distTags = call.distTagsBefore

\* C23 happens: a release passes lint, bumps 1.0.0 to 1.1.0 and publishes
\* 1.1.0 under latest and edge.
C23_Witness ==
  /\ call.op = "release"
  /\ call.pc = "done"
  /\ call.steps = ReleaseOrder
  /\ ~call.threw
  /\ call.oldVersion = V(<<"1", ".", "0", ".", "0">>)
  /\ packageVersion = V(<<"1", ".", "1", ".", "0">>)
  /\ packageVersion \in published
  /\ TagPointsAt(Str("latest"), packageVersion)
  /\ TagPointsAt(Str("edge"), packageVersion)

(***************************************************************************)
(* Properties of lintAll.                                                  *)
(***************************************************************************)
\* C24: lintAll starts all four checks; it returns only when each of them
\* has settled, whatever the others did, and returns true if and only if
\* every check fulfilled with true.
C24_SettleAllAggregation ==
  call.op = "lintAll" =>
    /\ DOMAIN call.checks = {"project", "dependencies", "structure", "docs"}
    /\ call.pc = "done" =>
         /\ \A c \in DOMAIN call.checks : call.checks[c] \in {"true", "false", "rejected"}
         /\ call.result = "true" <=> \A c \in DOMAIN call.checks : call.checks[c] = "true"
         /\ call.result \in {"true", "false"}
    /\ call.pc /= "done" => call.result = "none"

\* C24 happens: one check rejected, one returned false, the other two still
\* completed, and lintAll returned false.
C24_Witness ==
  /\ call.op = "lintAll"
  /\ call.pc = "done"
  /\ call.checks["project"] = "rejected"
  /\ call.checks["dependencies"] = "false"
  /\ call.checks["structure"] = "true"
  /\ call.checks["docs"] = "true"
  /\ call.result = "false"

(***************************************************************************)
(* Properties of lintStaged.                                               *)
(***************************************************************************)
\* The commands of the run that had file f among their matched files.
CommandsFor(f) == { i \in DOMAIN call.commands : f \in call.commands[i].files }

\* C29: in one run of lintStaged every staged, non-deleted file is handed to
\* the command of at most one pattern, whether or not that command succeeded.
C29_OnePatternPerFile ==
  call.op = "lintStaged" =>
    \A f \in call.files : Cardinality(CommandsFor(f)) <= 1

(***************************************************************************)
(* Properties of setupGitConfig.                                           *)
(***************************************************************************)
\* Every key of .git/config before the call has the same value after it.
ExistingKept(before, after) ==
  \A s \in DOMAIN before.config :
    /\ s \in DOMAIN after.config
    /\ \A k \in DOMAIN before.config[s] :
         /\ k \in DOMAIN after.config[s]
         /\ after.config[s][k] = before.config[s][k]

\* Every key .git/config gained in the call is a basis setting.
OnlyMissingAdded(before, after, settings) ==
  \A s \in DOMAIN after.config :
    \A k \in DOMAIN after.config[s] :
      (s \in DOMAIN before.config /\ k \in DOMAIN before.config[s])
      \/ /\ s \in DOMAIN settings
         /\ k \in DOMAIN settings[s]
         /\ after.config[s][k] = settings[s][k].text

\* The call left one more backup file and it holds the previous .git/config.
BackedUp(before, after) ==
  /\ after.backups = before.backups + 1
  /\ after.lastBackup = before.config

\* C25: whenever setupGitConfig writes .git/config, every key already present
\* keeps its value, only missing keys are added from the basis settings, and
\* a backup copy of the previous .git/config has been created.
C25_SafeMergeWithBackup ==
  (call.op = "setupGitConfig" /\ ~call.again /\ call.first.wrote) =>
    /\ ExistingKept(call.before, gitDir)
    /\ OnlyMissingAdded(call.before, gitDir, call.settings)
    /\ call.before.exists => BackedUp(call.before, gitDir)

\* C30: after a successful setupGitConfig, an immediately following call
\* with the same settings finds the configuration up to date, creates no
\* backup file and writes nothing.
C30_SetupConverges ==
  (call.op = "setupGitConfig" /\ call.again /\ call.first.outcome = "ok"
     /\ call.first.success) =>
    /\ ~call.second.wrote
    /\ call.second.backups = 0
    /\ gitDir = call.between
    /\ DOMAIN call.settings /= {} => call.second.upToDate

(***************************************************************************)
(* Properties of the Basis configuration cache.                            *)
(***************************************************************************)
\* C26: once setCwd or reloadConfig has been called, every getConfig that
\* begins afterwards, and during which the cwd is not changed, returns the
\* configuration loaded from the instance's current cwd, whichever getConfig
\* calls were still awaiting loadConfig when the cwd changed.
C26_CacheCoherent ==
  (call.op = "getConfig" /\ call.later /\ ~call.moved) => call.config = call.cwd

====
